---- MODULE Spec2Model ----
(***************************************************************************)
(* Model of the charger-to-parking-lot matching engine of                  *)
(* extract_ev_charger_data.py (normalize_address, extract_dong_from_       *)
(* address, extract_address_number, match_charger_to_parking_lot) and of   *)
(* its caller load_ev_charger_data in parking_data.py.                     *)
(*                                                                         *)
(* Text.  A Python str is modelled as a sequence of symbols.  A symbol is  *)
(* one character (" ", "-", ",", a digit, "dong" for the character 동,     *)
(* "gil" for 길) or an indivisible run of Hangul word characters written   *)
(* in romanised form ("Jorye" for 조례, "Juchajang" for 주차장, ...).      *)
(* CharLen gives the number of characters of a symbol.  No multi-character *)
(* symbol contains 동, a digit, a hyphen or white space, and no symbol is  *)
(* a proper part of another one, so substring tests, str.split, startswith,*)
(* replace and the two regular expressions computed on symbol sequences    *)
(* agree with the ones Python computes on the characters.                  *)
(***************************************************************************)
EXTENDS Integers, Sequences, FiniteSets, TLC

\* Python's None (a reserved value that is no text of the model).
None == <<"<None>">>

\* A field value that is no str and is truthy (the float pandas yields for a
\* numeric or empty cell, for instance).
NotText == <<"<float>">>

\* isinstance(x, str)
IsText(x) == x # None /\ x # NotText

\* bool(x): None and "" are falsy.
Truthy(x) == x # None /\ x # <<>>

Digits == {"0", "1", "2", "3", "4", "5", "6", "7", "8", "9"}

IsDigit(c) == c \in Digits

\* \s of the regular expressions and the separator of str.split().
IsSpace(c) == c = " "

\* \w of the regular expressions: letters, digits (and "_"); not white space,
\* hyphen or comma.
IsWord(c) == c \notin {" ", "-", ","}

\* Number of characters of a symbol.
CharLen(c) ==
  CASE c \in {"Jeollanamdo", "MunhwaGeongang"} -> 4
    [] c \in {"Suncheonsi", "Juchajang", "Suyeongjang", "Sumaegol", "Chungjeonso"} -> 3
    [] c \in {"Jeonnam", "Jorye", "Wangji", "Seokhyeon", "Senteo", "Gongyeong",
              "Jucha", "Jigu", "Tawo", "Keupsok", "Wansok", "Gonggong", "Muryo",
              "kW", "DC", "AC"} -> 2
    [] c = "IyongBulga" -> 4
    [] OTHER -> 1

RECURSIVE StrLen(_)
\* len(s) in characters.
StrLen(s) == IF s = <<>> THEN 0 ELSE CharLen(Head(s)) + StrLen(Tail(s))

\* Python's `needle in hay` for str.
Contains(hay, needle) ==
  \E i \in 0..(Len(hay) - Len(needle)) : SubSeq(hay, i + 1, i + Len(needle)) = needle

\* s.startswith(prefix)
StartsWith(s, prefix) ==
  Len(s) >= Len(prefix) /\ SubSeq(s, 1, Len(prefix)) = prefix

RECURSIVE Split(_)
\* s.split(): the maximal runs of non-white-space characters, in order.
Split(s) ==
  IF s = <<>> THEN <<>>
  ELSE IF IsSpace(Head(s)) THEN Split(Tail(s))
  ELSE LET stop == IF \E i \in 1..Len(s) : IsSpace(s[i])
                   THEN (CHOOSE i \in 1..Len(s) :
                           IsSpace(s[i]) /\ \A j \in 1..(i - 1) : ~IsSpace(s[j]))
                   ELSE Len(s) + 1
       IN  <<SubSeq(s, 1, stop - 1)>> \o Split(SubSeq(s, stop, Len(s)))

SetMax(S) == CHOOSE x \in S : \A y \in S : y <= x
SetMin(S) == CHOOSE x \in S : \A y \in S : x <= y

\* The character classes of the regular expressions.
InClass(class, c) ==
  CASE class = "word" -> IsWord(c)
    [] class = "space" -> IsSpace(c)
    [] class = "lot" -> IsDigit(c) \/ c = "-"

\* Last index e >= s such that every symbol of a[s..e] is of the class;
\* s - 1 when a[s] is not (or s is past the end).
RunEnd(a, s, class) ==
  LET ends == {e \in (s - 1)..Len(a) : \A i \in s..e : InClass(class, a[i])}
  IN  SetMax(ends)

(***************************************************************************)
(* normalize_address                                                       *)
(***************************************************************************)
\* address.replace("전라남도", "전남"): every occurrence is rewritten.
ReplaceProvince(address) ==
  [i \in 1..Len(address) |->
     IF address[i] = "Jeollanamdo" THEN "Jeonnam" ELSE address[i]]

normalize_address(address) ==
  IF ~Truthy(address) THEN <<>>
  ELSE IF StartsWith(address, <<"Jeollanamdo">>) THEN ReplaceProvince(address)
  ELSE address

\* Line 14 raises AttributeError: the address is truthy and has no startswith.
normalize_address_raises(address) == Truthy(address) /\ ~IsText(address)

(***************************************************************************)
(* extract_dong_from_address: re.search of one or more \w followed by 동   *)
(***************************************************************************)
\* Positions k at which group 1 can end when it starts at s: the run of \w
\* from s must reach k, a[k] is 동 and at least one \w precedes it.
DongEnds(a, s) ==
  {k \in (s + 1)..RunEnd(a, s, "word") : a[k] = "dong"}

\* Variant: the last place a dong token can start at is taken.
extract_last_dong_from_address(address) ==
  IF ~Truthy(address) THEN None
  ELSE LET starts == {s \in 1..Len(address) : DongEnds(address, s) # {}}
       IN  IF starts = {} THEN None
           ELSE LET s == SetMax(starts)
                    k == SetMax(DongEnds(address, s))
                IN  SubSeq(address, s, k)

extract_dong_from_address(address) ==
  IF ~Truthy(address) THEN None
  ELSE LET starts == {s \in 1..Len(address) : DongEnds(address, s) # {}}
       IN  IF starts = {} THEN None
           ELSE LET s == SetMin(starts)              \* leftmost match
                    k == SetMax(DongEnds(address, s)) \* \w+ is greedy
                IN  SubSeq(address, s, k)

(***************************************************************************)
(* extract_address_number: re.search of group 1 (one or more \w, then 동), *)
(* any white space, and group 2 (one or more digits, then any run of      *)
(* hyphens and digits)                                                     *)
(***************************************************************************)
\* Variant: at least one white space is required after the dong token.
AfterOneOrMoreSpaces(a, k) ==
  IF k < Len(a) /\ IsSpace(a[k + 1]) THEN RunEnd(a, k + 1, "space") + 1
  ELSE Len(a) + 1

\* First position after k that is not white space (\s* is greedy and what
\* follows it is never white space, so no backtracking into it succeeds).
AfterSpaces(a, k) == RunEnd(a, k + 1, "space") + 1

\* Ends k of group 1, started at s, after which white space and group 2 match.
NumberEnds(a, s) ==
  {k \in DongEnds(a, s) :
     LET t == AfterSpaces(a, k) IN t <= Len(a) /\ IsDigit(a[t])}

extract_address_number(address) ==
  IF ~Truthy(address) THEN None
  ELSE LET starts == {s \in 1..Len(address) : NumberEnds(address, s) # {}}
       IN  IF starts = {} THEN None
           ELSE LET s == SetMin(starts)
                    k == SetMax(NumberEnds(address, s))
                    t == AfterSpaces(address, k)
                    g == RunEnd(address, t, "lot")
                IN  SubSeq(address, s, k) \o <<" ">> \o SubSeq(address, t, g)

(***************************************************************************)
(* The texts of the model.                                                 *)
(***************************************************************************)
\* Lot names: 문화건강센터 수영장, 수매골 공영주차장, 공영주차장.
LotCulture == <<"MunhwaGeongang", "Senteo", " ", "Suyeongjang">>
LotSumaegol == <<"Sumaegol", " ", "Gongyeong", "Juchajang">>
LotPublic == <<"Gongyeong", "Juchajang">>

\* Charger names: 순천시문화건강센터, 수매골 충전소, 공영주차장, 문화건강 충전소.
ChCulture == <<"Suncheonsi", "MunhwaGeongang", "Senteo">>
ChCultureShort == <<"MunhwaGeongang", " ", "Chungjeonso">>
ChSumaegol == <<"Sumaegol", " ", "Chungjeonso">>
ChPublic == <<"Gongyeong", "Juchajang">>

\* Dong names of the registry: 조례동, 석현동.
DongJorye == <<"Jorye", "dong">>
DongSeokhyeon == <<"Seokhyeon", "dong">>

\* Addresses.
AddrJoryeBare == <<"Jorye", "dong", " ", "1", "8">>                      \* 조례동 18
AddrJoryeTight == <<"Jeonnam", " ", "Jorye", "dong", "1", "8">>          \* 전남 조례동18
AddrJoryeSub == <<"Jeonnam", " ", "Jorye", "dong", " ", "1", "8", "-", "1">>  \* 전남 조례동 18-1
AddrJoryePool == <<"Jeonnam", " ", "Jorye", "dong", " ", "1", "8", " ", "Suyeongjang">>  \* 전남 조례동 18 수영장
AddrJoryePoolLong == <<"Jeollanamdo", " ", "Jorye", "dong", " ", "1", "8", " ", "Suyeongjang">>  \* 전라남도 조례동 18 수영장
AddrWangjiGil == <<"Jeonnam", " ", "Wangji", "2", "gil", " ", "1", "3">> \* 전남 왕지2길 13
AddrSeokhyeon == <<"Jeonnam", " ", "Seokhyeon", "dong", " ", "3", "5", "-", "1", "0">>  \* 전남 석현동 35-10
AddrSeokhyeonLonger == <<"Jeonnam", " ", "Seokhyeon", "dong", " ", "3", "5", "-", "1", "0", "1">>  \* 전남 석현동 35-101
AddrJoryeWide == <<"Jorye", "dong", " ", " ", "1", "8">>                \* 조례동  18
AddrSeokhyeonJoined == <<"Jeonnam", " ", "Suncheonsi", "Seokhyeon", "dong", " ", "3", "5", "-", "1", "0">>  \* 전남 순천시석현동 35-10
AddrSeokhyeonBare == <<"Seokhyeon", "dong", " ", "3", "5", "-", "1", "0">>  \* 석현동 35-10
AddrGilPool == <<"Jeonnam", " ", "Wangji", "2", "gil", " ", "1", "3", " ", "Suyeongjang">>  \* 전남 왕지2길 13 수영장

\* One registry lot with the dong group it is listed in.  Of the six fields
\* of a lot tuple the engine reads the name and the address only.
Lot(dong, name, addr) == [dong_name |-> dong, lot_name |-> name, address |-> addr]

\* The registry lots the model draws from.  parking_data.py DONGS_DATA has the
\* same shapes: lots that share a lot-number, a lot listed under 조례동 whose
\* address names no dong, and 문화건강센터 수영장 at 석현동 35-10.
LotPool ==
  { Lot(DongJorye, LotPublic, AddrJoryePool),
    Lot(DongJorye, LotSumaegol, AddrJoryeBare),
    Lot(DongJorye, LotPublic, AddrWangjiGil),
    Lot(DongSeokhyeon, LotCulture, AddrSeokhyeon) }

\* One record of the charger feed (read_ev_charger_csv).
Charger(name, addr, type, cap, time) ==
  [charger_name |-> name, address |-> addr, charger_type |-> type,
   capacity |-> cap, available_time |-> time,
   facility_type |-> <<"Gonggong">>, convenience |-> <<>>]

\* The charger records the model draws from.
ChargerPool ==
  { Charger(ChSumaegol, AddrJoryePoolLong, <<"DC">>, <<"5", "0", "kW">>, <<"2", "4">>),
    Charger(ChPublic, AddrJoryeTight, <<"AC">>, <<"7", "kW">>, <<"2", "4">>),
    Charger(ChCulture, AddrJoryePool, <<"B">>, <<"Wansok">>, <<"IyongBulga">>),
    Charger(ChSumaegol, AddrJoryeSub, <<"AC">>, <<"Keupsok">>, <<>>),
    Charger(ChPublic, AddrWangjiGil, <<"B">>, <<"7", "kW">>, <<"2", "4">>),
    Charger(ChCulture, AddrSeokhyeon, <<"DC", "+", "AC">>, <<"5", "0", "kW">>, <<>>) }

\* Bounds of the inputs.
MaxChargers == 2
MaxLots == 2
MaxText == 5

\* The symbols of the addresses the three address functions are called with
\* directly: 전라남도, a space, 조례, 동, a digit and a hyphen.
TextSymbols == {"Jeollanamdo", " ", "Jorye", "dong", "1", "-"}

\* The texts of at most n symbols.
Texts(n) == UNION {[1..k -> TextSymbols] : k \in 0..n}

\* The sequences of at most n pairwise different elements of S.
DistinctSeqs(S, n) ==
  UNION { {q \in [1..k -> S] : \A i, j \in 1..k : i # j => q[i] # q[j]} : k \in 0..n }

RECURSIVE GroupByDong(_)
\* The registry in the shape of DONGS_DATA, a list of (dong_name, lots): the
\* consecutive lots of one dong form one group.
GroupByDong(flat) ==
  IF flat = <<>> THEN <<>>
  ELSE LET d == flat[1].dong_name
           n == SetMax({k \in 1..Len(flat) : \A i \in 1..k : flat[i].dong_name = d})
       IN  << [dong_name |-> d,
               lots |-> [i \in 1..n |->
                           [lot_name |-> flat[i].lot_name, address |-> flat[i].address]]] >>
           \o GroupByDong(SubSeq(flat, n + 1, Len(flat)))

(***************************************************************************)
(* The inputs of the invocations with one charger record.                  *)
(***************************************************************************)
RecordNames == {ChCulture, ChSumaegol, ChPublic, ChCultureShort}

RecordAddresses ==
  { AddrJoryeBare, AddrJoryeTight, AddrJoryeSub, AddrJoryePool, AddrJoryePoolLong,
    AddrWangjiGil, AddrSeokhyeon, AddrSeokhyeonLonger, AddrSeokhyeonJoined,
    AddrSeokhyeonBare,
    AddrGilPool, AddrJoryeWide }

\* Field values of a record: a text, the empty text, absent, or no text.
FieldTypes == {<<"DC">>, <<"AC">>, <<"B">>, None, NotText}
FieldCapacities == {<<"Keupsok">>, <<"Wansok">>, <<"7", "kW">>, <<>>, None, NotText}
FieldTimes ==
  {<<"Keupsok">>, <<"Wansok">>, <<"2", "4", " ", "IyongBulga">>, <<"2", "4">>, <<>>,
   None, NotText}

\* Well-formed records: every name at every address.
PairRecords ==
  {Charger(n, a, <<"DC">>, <<"5", "0", "kW">>, <<"2", "4">>) :
     n \in RecordNames, a \in RecordAddresses}

\* Records of one charger at one address with every combination of the three
\* classified fields, and records whose name or address is empty, absent or
\* no text.
FieldRecords ==
  {Charger(ChSumaegol, AddrJoryeBare, t, c, tm) :
     t \in FieldTypes, c \in FieldCapacities, tm \in FieldTimes}
  \cup {Charger(n, AddrJoryeBare, <<"DC">>, <<"5", "0", "kW">>, <<"2", "4">>) :
           n \in {<<>>, None, NotText}}
  \cup {Charger(ChSumaegol, a, <<"DC">>, <<"5", "0", "kW">>, <<"2", "4">>) :
           a \in {<<>>, None, NotText}}

\* The lots the registries of these invocations draw from: LotPool, a lot of
\* no specific name at the address of 문화건강센터 수영장, and a lot whose
\* address separates dong and lot-number by two spaces.
RecordLotPool ==
  LotPool \cup { Lot(DongSeokhyeon, LotPublic, AddrSeokhyeon),
                 Lot(DongJorye, LotSumaegol, AddrJoryeWide) }

\* A record with the registries it is matched against: a well-formed record
\* with every registry of at most MaxLots lots, a record of FieldRecords with
\* the empty registry and with the registry of the one lot at its address.
RecordInputs ==
  {[chargers |-> <<r>>, parking_lots |-> GroupByDong(flat)] :
     r \in PairRecords, flat \in DistinctSeqs(RecordLotPool, MaxLots)}
  \cup {[chargers |-> <<r>>, parking_lots |-> g] :
           r \in FieldRecords,
           g \in {<<>>, GroupByDong(<<Lot(DongJorye, LotSumaegol, AddrJoryeBare)>>)}}

(***************************************************************************)
(* State.                                                                  *)
(***************************************************************************)
VARIABLES
  chargers,                \* argument: the charger records, in feed order
  parking_lots,            \* argument: the registry, a list of (dong_name, lots)
  parking_dict,            \* local: the lot index, a dict in insertion order
  matched,                 \* local, returned: dict lot name -> {has_charger, chargers}
  ci,                      \* position of `for charger in chargers` (records begun)
  charger_address,         \* locals of the charger loop (lines 110-115)
  charger_dong,
  charger_address_number,
  best_match,
  best_score,
  li,                      \* position of `for lot_name, lot_info in parking_dict.items()`
  score,                   \* local: the score of the pair evaluated last
  pc,                      \* where the invocation stands
  run,                     \* which invocation of the caller this is
  EV_CHARGER_DATA,         \* parking_data.py: the module-level cache of the result
  origin,                  \* history: for each entry of matched, the positions in
                           \* chargers of the records its charger list was built from
  address,                 \* argument of a direct call of one of the three
                           \* address functions
  result,                  \* what that call returned
  calls,                   \* the invocations of the engine that run interleaved,
                           \* each with the locals of its own frame
  args,                    \* the arguments of the method called last
  total_spaces,            \* ParkingLot.total_spaces
  current_cars,            \* ParkingLot.current_cars
  users,                   \* UserAuthSystem.users: username -> the user's data
  data_file,               \* what the file UserAuthSystem.data_file holds
  now,                     \* the clock datetime.now() reads
  parked,                  \* history: for each username, whether start_parking
                           \* has succeeded, with the record it stored, and
                           \* whether end_parking has succeeded since
  dongs,                   \* ParkingManager.dongs: dong name -> Dong.parking_lots
  favorites                \* ParkingManager.favorites

vars == <<chargers, parking_lots, parking_dict, matched, ci, charger_address,
          charger_dong, charger_address_number, best_match, best_score, li,
          score, pc, run, EV_CHARGER_DATA, origin, address, result, calls, args,
          total_spaces, current_cars, users, data_file, now, parked, dongs,
          favorites>>

\* The state of the engine's single invocation and of its caller, but for pc
\* and result.
engine == <<chargers, parking_lots, parking_dict, matched, ci, charger_address,
            charger_dong, charger_address_number, best_match, best_score, li,
            score, run, EV_CHARGER_DATA, origin, address>>

\* The state of the objects of parking_classes.py and user_auth.py and of the
\* interleaved invocations.
objects == <<calls, args, total_spaces, current_cars, users, data_file, now,
             parked, dongs, favorites>>

lotVars == <<total_spaces, current_cars>>

authVars == <<users, data_file, now, parked>>

managerVars == <<dongs, favorites>>

(***************************************************************************)
(* Python dict, as the sequence of its items in insertion order.           *)
(***************************************************************************)
HasKey(d, key) == \E n \in 1..Len(d) : d[n].key = key

KeyPos(d, key) == CHOOSE n \in 1..Len(d) : d[n].key = key

\* Variant: an existing key keeps its value (setdefault).
DictPutIfAbsent(d, item) ==
  IF HasKey(d, item.key) THEN d ELSE Append(d, item)

\* d[key] = item: a new key is appended, an existing key keeps its position
\* and takes the new value.
DictPut(d, item) ==
  IF HasKey(d, item.key) THEN [d EXCEPT ![KeyPos(d, item.key)] = item]
  ELSE Append(d, item)

(***************************************************************************)
(* The lot index (lines 93-103).                                           *)
(***************************************************************************)
\* Variant: the index keyed by the dong of the group.
IndexKeyByDong(dong_name, lot_name) == dong_name

\* The key a registry lot is stored under (line 99).
IndexKey(dong_name, lot_name) == lot_name

\* The item stored for one lot: the dong is the group's declared name.
IndexItem(dong_name, lot) ==
  LET normalized_address == normalize_address(lot.address)
  IN  [key |-> IndexKey(dong_name, lot.lot_name),
       dong_name |-> dong_name,
       address |-> normalized_address,
       address_number |-> extract_address_number(normalized_address)]

RECURSIVE IndexLots(_, _, _)
\* The inner loop `for lot_name, ... in lots` over lots[from..].
IndexLots(d, group, from) ==
  IF from > Len(group.lots) THEN d
  ELSE IndexLots(DictPut(d, IndexItem(group.dong_name, group.lots[from])), group, from + 1)

RECURSIVE IndexGroups(_, _, _)
\* The outer loop `for dong_name, lots in parking_lots` over groups[from..].
IndexGroups(d, groups, from) ==
  IF from > Len(groups) THEN d
  ELSE IndexGroups(IndexLots(d, groups[from], 1), groups, from + 1)

(***************************************************************************)
(* The score of one charger/lot pair (the body of the inner loop,          *)
(* lines 119-163).  c holds the charger's name and the three values        *)
(* derived from its address; lot is an item of parking_dict.               *)
(***************************************************************************)
lot_name_in_charger(lot_name, charger_name) ==
  Contains(charger_name, lot_name) \/ Contains(lot_name, charger_name)

\* 주차장, 공영주차장, 공영, 주차, 제, 동, 지구, 타워, 수영장
common_words ==
  { <<"Juchajang">>, <<"Gongyeong", "Juchajang">>, <<"Gongyeong">>, <<"Jucha">>,
    <<"je">>, <<"dong">>, <<"Jigu">>, <<"Tawo">>, <<"Suyeongjang">> }

IsKeyword(kw) == kw \notin common_words /\ StrLen(kw) >= 2

lot_name_keywords(lot_name) == SelectSeq(Split(lot_name), IsKeyword)

\* Line 127 raises TypeError: `lot_name in charger_name` with a charger name
\* that is no str.
name_test_raises(charger_name) == ~IsText(charger_name)

\* keyword_match as line 132 computes it.
keyword_match(lot_name, charger_name) ==
  LET kws == lot_name_keywords(lot_name)
  IN  Len(kws) > 0 /\ \E n \in 1..Len(kws) : Contains(charger_name, kws[n])

\* Line 135: both names contain 문화건강.
CultureCase(lot_name, charger_name) ==
  Contains(lot_name, <<"MunhwaGeongang">>) /\ Contains(charger_name, <<"MunhwaGeongang">>)

\* Variant: the name signal without the keyword test.
NameContainmentOnly(lot_name, charger_name) ==
  lot_name_in_charger(lot_name, charger_name)

\* Variant: keyword_match as line 132 leaves it, without line 136.
NameSignalUnforced(lot_name, charger_name) ==
  \/ lot_name_in_charger(lot_name, charger_name)
  \/ keyword_match(lot_name, charger_name)

\* lot_name_in_charger or keyword_match at lines 157 and 162, where
\* keyword_match has been set to True by line 136 in the culture case.
NameSignal(lot_name, charger_name) ==
  \/ lot_name_in_charger(lot_name, charger_name)
  \/ keyword_match(lot_name, charger_name)
  \/ CultureCase(lot_name, charger_name)

\* Variant: no dong is ever taken to differ.
DongGateOpen(charger_dong_, lot_dong) == FALSE

\* Lines 138 and 148: the charger's derived dong against the registry dong.
DongsDiffer(charger_dong_, lot_dong) == charger_dong_ # lot_dong

\* Variant: 수영장 looked for in the lot's name instead of its address.
SpecialCaseByLotName(c, lot) ==
  /\ CultureCase(lot.key, c.charger_name)
  /\ DongsDiffer(c.charger_dong, lot.dong_name)
  /\ \/ Contains(c.charger_address, <<"Suyeongjang">>)
     \/ Contains(lot.key, <<"Suyeongjang">>)

\* Variant: the special-case path without the test of line 140.
SpecialCaseAnyAddress(c, lot) ==
  /\ CultureCase(lot.key, c.charger_name)
  /\ DongsDiffer(c.charger_dong, lot.dong_name)

\* Lines 135-145: the pair takes the special-case path (score 70, continue).
SpecialCase(c, lot) ==
  /\ CultureCase(lot.key, c.charger_name)
  /\ DongsDiffer(c.charger_dong, lot.dong_name)
  /\ \/ Contains(c.charger_address, <<"Suyeongjang">>)
     \/ Contains(lot.address, <<"Suyeongjang">>)

\* Variant: address equality counts only with a name signal, as lot-number
\* equality does.
ExactOrNumberNeedsName(c, lot) ==
  IF lot.address = c.charger_address /\ NameSignal(lot.key, c.charger_name) THEN 100
  ELSE IF Truthy(c.charger_address_number) /\ Truthy(lot.address_number)
            /\ c.charger_address_number = lot.address_number
            /\ NameSignal(lot.key, c.charger_name)
       THEN 80
  ELSE 0

\* Variant: lot-number equality tested by an `if` of its own, after the
\* address equality and not instead of it.
ExactAndNumber(c, lot) ==
  (IF lot.address = c.charger_address THEN 100 ELSE 0)
  + (IF Truthy(c.charger_address_number) /\ Truthy(lot.address_number)
        /\ c.charger_address_number = lot.address_number
        /\ NameSignal(lot.key, c.charger_name)
     THEN 80
     ELSE 0)

\* Variant: lot-number equality counts without a name signal.
ExactOrNumberUnnamed(c, lot) ==
  IF lot.address = c.charger_address THEN 100
  ELSE IF Truthy(c.charger_address_number) /\ Truthy(lot.address_number)
          /\ c.charger_address_number = lot.address_number
       THEN 80
  ELSE 0

\* Lines 151-158: exact address equality, else lot-number equality with a
\* name signal.
ExactOrNumber(c, lot) ==
  IF lot.address = c.charger_address THEN 100
  ELSE IF Truthy(c.charger_address_number) /\ Truthy(lot.address_number)
       THEN IF c.charger_address_number = lot.address_number
               /\ NameSignal(lot.key, c.charger_name)
            THEN 80
            ELSE 0
  ELSE 0

\* Variant: the lot-number substring rule as a further elif of rules 1 and 2.
NumberInAddressUnlessScored(c, lot) ==
  IF ExactOrNumber(c, lot) > 0 THEN 0
  ELSE IF Truthy(lot.address_number) /\ Contains(c.charger_address, lot.address_number)
          /\ NameSignal(lot.key, c.charger_name)
  THEN 60
  ELSE 0

\* Lines 160-163: the lot's lot-number occurs in the charger's address, with a
\* name signal.
NumberInAddress(c, lot) ==
  IF Truthy(lot.address_number) /\ Contains(c.charger_address, lot.address_number)
     /\ NameSignal(lot.key, c.charger_name)
  THEN 60
  ELSE 0

\* Variant: the rules without the dong gate of line 148.
PairScoreUngated(c, lot) ==
  IF SpecialCase(c, lot) THEN 70
  ELSE ExactOrNumber(c, lot) + NumberInAddress(c, lot)

\* The value of `score` when the iteration for the pair ends.
PairScore(c, lot) ==
  IF SpecialCase(c, lot) THEN 70
  ELSE IF DongsDiffer(c.charger_dong, lot.dong_name) THEN 0
  ELSE ExactOrNumber(c, lot) + NumberInAddress(c, lot)

\* Variant: an equal score replaces the running best too.
ImprovesOrTies(score_, best_score_) == score_ >= best_score_ /\ score_ >= 60

\* Variant: every qualifying score replaces the running best.
ImprovesAny(score_, best_score_) == score_ >= 60

\* Lines 142 and 166: the pair replaces the running best.
Improves(score_, best_score_) == score_ > best_score_ /\ score_ >= 60

\* The charger's name and the values lines 110-112 derive from its address.
Derived(charger) ==
  LET a == normalize_address(charger.address)
  IN  [charger_name |-> charger.charger_name,
       charger_address |-> a,
       charger_dong |-> extract_dong_from_address(a),
       charger_address_number |-> extract_address_number(a)]

(***************************************************************************)
(* Classification of a matched charger (lines 177-206).                    *)
(***************************************************************************)
\* 급속 (FAST) or 완속 (SLOW), lines 181-186.
charge_type(charger) ==
  IF Contains(charger.charger_type, <<"DC">>) \/ Contains(charger.capacity, <<"Keupsok">>)
  THEN <<"Keupsok">>
  ELSE IF Contains(charger.charger_type, <<"AC">>) \/ Contains(charger.capacity, <<"Wansok">>)
  THEN <<"Wansok">>
  ELSE <<"Keupsok">>

\* Line 181 raises TypeError: `'DC' in charger_type` with a type code that is
\* no str, or, when the type code has no DC, `'급속' in capacity` with a
\* capacity that is no str.
charge_type_raises(charger) ==
  \/ ~IsText(charger.charger_type)
  \/ ~Contains(charger.charger_type, <<"DC">>) /\ ~IsText(charger.capacity)

\* Variant: the default of line 189 is never revised.
AlwaysAvailable(charger) == TRUE

\* Lines 189-192: False only when the descriptor contains 이용불가.
is_available(charger) ==
  ~(Truthy(charger.available_time) /\ Contains(charger.available_time, <<"IyongBulga">>))

\* The dict appended at lines 197-206; cost is the constant 무료.
Entry(charger) ==
  [charger_name |-> charger.charger_name,
   charge_type |-> charge_type(charger),
   is_available |-> is_available(charger),
   cost |-> <<"Muryo">>,
   capacity |-> charger.capacity,
   available_time |-> charger.available_time,
   facility_type |-> charger.facility_type,
   convenience |-> charger.convenience]

\* Variant: insertion at the front.
PushFront(list, x) == <<x>> \o list

\* list.append at line 197.
PushBack(list, x) == Append(list, x)

\* Lines 171-175: the entry of lot `key` is created when it is not there.
EnsureEntry(d, key) ==
  IF HasKey(d, key) THEN d
  ELSE Append(d, [key |-> key, has_charger |-> TRUE, chargers |-> <<>>])

\* Variant: the entry is created anew on every hit.
AddToFresh(d, key, x) ==
  DictPut(d, [key |-> key, has_charger |-> TRUE, chargers |-> PushBack(<<>>, x)])

\* Lines 171-175 and 197: the entry of lot `key` is created on first hit and
\* x is appended to its list.
AddTo(d, key, x) ==
  IF HasKey(d, key)
  THEN [d EXCEPT ![KeyPos(d, key)].chargers = PushBack(@, x)]
  ELSE Append(d, [key |-> key, has_charger |-> TRUE, chargers |-> PushBack(<<>>, x)])

(***************************************************************************)
(* The invocation, step by step.                                           *)
(***************************************************************************)
\* Variant: the result dict outlives the invocation.
MatchedKept == matched

\* Line 91: the result starts as a fresh, empty dict in every invocation.
NewMatched == <<>>

\* Variant: the running best carries over to the next charger.
BestKept == [match |-> best_match, score |-> best_score]

\* Lines 114-115: the running best is reset for every charger.
InitialBest == [match |-> None, score |-> 0]

\* The locals of the charger loop, as PairScore reads them.
Current ==
  [charger_name |-> chargers[ci].charger_name,
   charger_address |-> charger_address,
   charger_dong |-> charger_dong,
   charger_address_number |-> charger_address_number]

\* The state of the locals and of the cache before the first invocation.
Fresh ==
  /\ parking_dict = <<>>
  /\ matched = <<>>
  /\ ci = 0
  /\ charger_address = <<>>
  /\ charger_dong = None
  /\ charger_address_number = None
  /\ best_match = None
  /\ best_score = 0
  /\ li = 0
  /\ score = 0
  /\ run = "first"
  /\ EV_CHARGER_DATA = <<>>
  /\ origin = <<>>
  /\ result = None

\* No object of parking_classes.py or user_auth.py is constructed and no
\* interleaved invocation runs.
NoLot == total_spaces = 0 /\ current_cars = 0

NoAuth == users = <<>> /\ data_file = None /\ now = 0 /\ parked = <<>>

NoManager == dongs = <<>> /\ favorites = <<>>

Apart ==
  /\ calls = <<>>
  /\ args = <<>>
  /\ NoLot
  /\ NoAuth
  /\ NoManager

Init ==
  /\ chargers \in DistinctSeqs(ChargerPool, MaxChargers)
  /\ parking_lots \in {GroupByDong(flat) : flat \in DistinctSeqs(LotPool, MaxLots)}
  /\ address = None
  /\ pc = "call"
  /\ Fresh
  /\ Apart

\* One charger record and a registry.
InitRecords ==
  /\ \E input \in RecordInputs :
       /\ chargers = input.chargers
       /\ parking_lots = input.parking_lots
  /\ address = None
  /\ pc = "call"
  /\ Fresh
  /\ Apart

\* Lines 91-103: the empty result and the lot index.
BuildIndex ==
  /\ pc = "call"
  /\ matched' = NewMatched
  /\ parking_dict' = IndexGroups(<<>>, parking_lots, 1)
  /\ pc' = "chargers"
  /\ UNCHANGED <<chargers, parking_lots, ci, charger_address, charger_dong,
                 charger_address_number, best_match, best_score, li, score, run,
                 EV_CHARGER_DATA, origin, address, result, objects>>

\* Lines 109-115: the next charger; its address is normalized and its dong and
\* lot-number are derived once.  An address that is no str makes line 110
\* raise, which ends the invocation.
BeginCharger ==
  /\ pc = "chargers"
  /\ ci < Len(chargers)
  /\ ci' = ci + 1
  /\ IF normalize_address_raises(chargers[ci + 1].address)
     THEN /\ pc' = "raised"
          /\ UNCHANGED <<charger_address, charger_dong, charger_address_number,
                         best_match, best_score, li>>
     ELSE /\ LET c == Derived(chargers[ci + 1])
             IN  /\ charger_address' = c.charger_address
                 /\ charger_dong' = c.charger_dong
                 /\ charger_address_number' = c.charger_address_number
          /\ best_match' = InitialBest.match
          /\ best_score' = InitialBest.score
          /\ li' = 0
          /\ pc' = "lots"
  /\ UNCHANGED <<chargers, parking_lots, parking_dict, matched, score, run,
                 EV_CHARGER_DATA, origin, address, result, objects>>

\* Lines 118-168: one iteration of the loop over the index.  A charger name
\* that is no str makes line 127 raise.
ScoreLot ==
  /\ pc = "lots"
  /\ li < Len(parking_dict)
  /\ li' = li + 1
  /\ IF name_test_raises(chargers[ci].charger_name)
     THEN /\ pc' = "raised"
          /\ score' = 0
          /\ UNCHANGED <<best_score, best_match>>
     ELSE /\ LET lot == parking_dict[li + 1]
                 s == PairScore(Current, lot)
             IN  /\ score' = s
                 /\ IF Improves(s, best_score)
                    THEN best_score' = s /\ best_match' = lot.key
                    ELSE UNCHANGED <<best_score, best_match>>
          /\ pc' = pc
  /\ UNCHANGED <<chargers, parking_lots, parking_dict, matched, ci, charger_address,
                 charger_dong, charger_address_number, run, EV_CHARGER_DATA,
                 origin, address, result, objects>>

\* Lines 170-206: after the last lot the charger is appended to its best
\* match, or dropped when there is none.  A type code or a capacity that is
\* no str makes line 181 raise, after lines 171-175 have created the entry.
FinishCharger ==
  /\ pc = "lots"
  /\ li = Len(parking_dict)
  /\ IF ~Truthy(best_match)
     THEN /\ pc' = "chargers"
          /\ UNCHANGED <<matched, origin>>
     ELSE IF charge_type_raises(chargers[ci])
     THEN /\ pc' = "raised"
          /\ matched' = EnsureEntry(matched, best_match)
          /\ origin' = EnsureEntry(origin, best_match)
     ELSE /\ pc' = "chargers"
          /\ matched' = AddTo(matched, best_match, Entry(chargers[ci]))
          /\ origin' = AddTo(origin, best_match, ci)
  /\ UNCHANGED <<chargers, parking_lots, parking_dict, ci, charger_address,
                 charger_dong, charger_address_number, best_match, best_score, li,
                 score, run, EV_CHARGER_DATA, address, result, objects>>

\* Line 208: return matched.
Return ==
  /\ pc = "chargers"
  /\ ci = Len(chargers)
  /\ pc' = "returned"
  /\ UNCHANGED <<chargers, parking_lots, parking_dict, matched, ci, charger_address,
                 charger_dong, charger_address_number, best_match, best_score, li,
                 score, run, EV_CHARGER_DATA, origin, address, result, objects>>

\* parking_data.py load_ev_charger_data: the caller caches the result
\* (line 314), or an empty dict when the invocation raised (lines 316-318).
Store ==
  /\ pc \in {"returned", "raised"}
  /\ EV_CHARGER_DATA' = IF pc = "returned" THEN matched ELSE <<>>
  /\ pc' = "done"
  /\ UNCHANGED <<chargers, parking_lots, parking_dict, matched, ci, charger_address,
                 charger_dong, charger_address_number, best_match, best_score, li,
                 score, run, origin, address, result, objects>>

\* load_ev_charger_data is called again with the same feed and registry (the
\* refresh of the application); the locals of the new invocation start afresh.
Reload ==
  /\ pc = "done"
  /\ run = "first"
  /\ run' = "second"
  /\ pc' = "call"
  /\ parking_dict' = <<>>
  /\ ci' = 0
  /\ charger_address' = <<>>
  /\ charger_dong' = None
  /\ charger_address_number' = None
  /\ li' = 0
  /\ score' = 0
  /\ origin' = <<>>
  /\ UNCHANGED <<chargers, parking_lots, matched, best_match, best_score,
                 EV_CHARGER_DATA, address, result, objects>>

Next ==
  \/ BuildIndex
  \/ BeginCharger
  \/ ScoreLot
  \/ FinishCharger
  \/ Return
  \/ Store
  \/ Reload

Spec == Init /\ [][Next]_vars

(***************************************************************************)
(* Direct calls of the three address functions.                            *)
(***************************************************************************)
\* The argument: a text, the empty text included, or None.
InitText ==
  /\ address \in Texts(MaxText) \cup {None}
  /\ chargers = <<>>
  /\ parking_lots = <<>>
  /\ pc = "text"
  /\ Fresh
  /\ Apart

\* result = f(address); pc records the function that was called.
Call(function, value) ==
  /\ pc = "text"
  /\ pc' = function
  /\ result' = value
  /\ UNCHANGED <<chargers, parking_lots, parking_dict, matched, ci, charger_address,
                 charger_dong, charger_address_number, best_match, best_score, li,
                 score, run, EV_CHARGER_DATA, origin, address, objects>>

CallNormalizeAddress == Call("normalize_address", normalize_address(address))

CallExtractDong ==
  Call("extract_dong_from_address", extract_dong_from_address(address))

CallExtractNumber ==
  Call("extract_address_number", extract_address_number(address))

NextText ==
  \/ CallNormalizeAddress
  \/ CallExtractDong
  \/ CallExtractNumber

SpecText == InitText /\ [][NextText]_vars

\* The invocations with one charger record.
SpecRecords == InitRecords /\ [][Next]_vars

(***************************************************************************)
(* Two invocations of match_charger_to_parking_lot that run interleaved,   *)
(* each called with a feed and a registry of its own.  calls[p] is the     *)
(* frame of invocation p: its arguments, its locals and where it stands.   *)
(***************************************************************************)
Invocations == {"one", "other"}

\* The feeds and registries the interleaved invocations are called with.
InterleavedInputs ==
  LET sumaegol == Charger(ChSumaegol, AddrJoryePoolLong, <<"DC">>, <<"5", "0", "kW">>, <<"2", "4">>)
      culture == Charger(ChCulture, AddrJoryePool, <<"B">>, <<"Wansok">>, <<"IyongBulga">>)
      public == Charger(ChPublic, AddrWangjiGil, <<"B">>, <<"7", "kW">>, <<"2", "4">>)
      pool == Lot(DongJorye, LotPublic, AddrJoryePool)
      wangji == Lot(DongJorye, LotPublic, AddrWangjiGil)
      seokhyeon == Lot(DongSeokhyeon, LotCulture, AddrSeokhyeon)
  IN  { [chargers |-> cs, parking_lots |-> GroupByDong(ls)] :
          cs \in {<<sumaegol, culture>>, <<culture, sumaegol>>, <<public>>},
          ls \in {<<pool, seokhyeon>>, <<wangji>>} }

\* The frame of an invocation that has been called and has not run line 91.
Frame(input) ==
  [chargers |-> input.chargers, parking_lots |-> input.parking_lots,
   parking_dict |-> <<>>, matched |-> <<>>, ci |-> 0, charger_address |-> <<>>,
   charger_dong |-> None, charger_address_number |-> None,
   best_match |-> InitialBest.match, best_score |-> InitialBest.score,
   li |-> 0, score |-> 0, pc |-> "call"]

\* Variant: line 91 binds the dict another invocation is collecting its result
\* in (one dict kept by the module).
MatchedOfOthers(frames, p) ==
  LET q == CHOOSE q \in DOMAIN frames : q # p IN frames[q].matched

\* Line 91: `matched = {}` binds a new, empty dict in the frame of p, whatever
\* the other frames hold.
MatchedOf(frames, p) == <<>>

\* The locals of the charger loop of a frame, as PairScore reads them.
CurrentOf(f) ==
  [charger_name |-> f.chargers[f.ci].charger_name,
   charger_address |-> f.charger_address,
   charger_dong |-> f.charger_dong,
   charger_address_number |-> f.charger_address_number]

InitInterleaved ==
  /\ calls \in [Invocations -> {Frame(input) : input \in InterleavedInputs}]
  /\ chargers = <<>>
  /\ parking_lots = <<>>
  /\ address = None
  /\ pc = "interleaved"
  /\ Fresh
  /\ args = <<>>
  /\ NoLot
  /\ NoAuth
  /\ NoManager

\* Invocation p takes the step that turns its frame into f.
Advance(p, f) ==
  /\ calls' = [calls EXCEPT ![p] = f]
  /\ UNCHANGED <<engine, pc, result, args, lotVars, authVars, managerVars>>

\* Lines 91-103 in the frame of p.
BuildIndexIn(p) ==
  /\ calls[p].pc = "call"
  /\ Advance(p, [calls[p] EXCEPT
                   !.matched = MatchedOf(calls, p),
                   !.parking_dict = IndexGroups(<<>>, calls[p].parking_lots, 1),
                   !.pc = "chargers"])

\* Lines 109-115 in the frame of p.
BeginChargerIn(p) ==
  LET f == calls[p] IN
  /\ f.pc = "chargers"
  /\ f.ci < Len(f.chargers)
  /\ IF normalize_address_raises(f.chargers[f.ci + 1].address)
     THEN Advance(p, [f EXCEPT !.ci = f.ci + 1, !.pc = "raised"])
     ELSE LET c == Derived(f.chargers[f.ci + 1])
          IN  Advance(p, [f EXCEPT
                            !.ci = f.ci + 1,
                            !.charger_address = c.charger_address,
                            !.charger_dong = c.charger_dong,
                            !.charger_address_number = c.charger_address_number,
                            !.best_match = InitialBest.match,
                            !.best_score = InitialBest.score,
                            !.li = 0,
                            !.pc = "lots"])

\* Lines 118-168 in the frame of p: one iteration of the loop over the index.
ScoreLotIn(p) ==
  LET f == calls[p] IN
  /\ f.pc = "lots"
  /\ f.li < Len(f.parking_dict)
  /\ IF name_test_raises(f.chargers[f.ci].charger_name)
     THEN Advance(p, [f EXCEPT !.li = f.li + 1, !.score = 0, !.pc = "raised"])
     ELSE LET lot == f.parking_dict[f.li + 1]
              s == PairScore(CurrentOf(f), lot)
          IN  Advance(p, [f EXCEPT
                            !.li = f.li + 1,
                            !.score = s,
                            !.best_score = IF Improves(s, f.best_score) THEN s ELSE @,
                            !.best_match = IF Improves(s, f.best_score) THEN lot.key ELSE @])

\* Lines 170-206 in the frame of p.
FinishChargerIn(p) ==
  LET f == calls[p] IN
  /\ f.pc = "lots"
  /\ f.li = Len(f.parking_dict)
  /\ IF ~Truthy(f.best_match)
     THEN Advance(p, [f EXCEPT !.pc = "chargers"])
     ELSE IF charge_type_raises(f.chargers[f.ci])
     THEN Advance(p, [f EXCEPT !.matched = EnsureEntry(f.matched, f.best_match),
                               !.pc = "raised"])
     ELSE Advance(p, [f EXCEPT
                        !.matched = AddTo(f.matched, f.best_match, Entry(f.chargers[f.ci])),
                        !.pc = "chargers"])

\* Line 208 in the frame of p.
ReturnIn(p) ==
  /\ calls[p].pc = "chargers"
  /\ calls[p].ci = Len(calls[p].chargers)
  /\ Advance(p, [calls[p] EXCEPT !.pc = "returned"])

NextInterleaved ==
  \E p \in Invocations :
    \/ BuildIndexIn(p)
    \/ BeginChargerIn(p)
    \/ ScoreLotIn(p)
    \/ FinishChargerIn(p)
    \/ ReturnIn(p)

SpecInterleaved == InitInterleaved /\ [][NextInterleaved]_vars

(***************************************************************************)
(* parking_classes.py, class ParkingLot: one lot and the three methods     *)
(* that change current_cars.  pc names the method called last, args its    *)
(* arguments and result what it returned.                                  *)
(***************************************************************************)
\* Largest total_spaces a lot is constructed with.
MaxSpaces == 6

MAX_VEHICLE_CHANGE == 5
MIN_CARS == 0

Min(a, b) == IF a < b THEN a ELSE b
Max(a, b) == IF a > b THEN a ELSE b

\* Arguments of set_vehicle_count: ints from below 0 to above total_spaces,
\* the bool True (bool is a subclass of int, True == 1) and the float 1.0.
CountArgs ==
  {[type |-> "int", value |-> v] : v \in (0 - 2)..(MaxSpaces + 2)}
  \cup {[type |-> "bool", value |-> 1], [type |-> "float", value |-> 1]}

\* Variant: the check without its upper limit.
CountNotNegative(count, total) ==
  count.type \in {"int", "bool"} /\ count.value >= 0

\* Line 1304, negated: count is an int within 0..total_spaces.
CountAccepted(count, total) ==
  count.type \in {"int", "bool"} /\ ~(count.value < 0) /\ ~(count.value > total)

\* Lines 939-964: a lot is constructed with a positive int total_spaces (any
\* other value raises ValueError and there is no lot) and starts with
\* random.randint(MIN_CARS, total_spaces) cars.
InitLot ==
  /\ total_spaces \in 1..MaxSpaces
  /\ current_cars \in MIN_CARS..total_spaces
  /\ pc = "ParkingLot"
  /\ args = <<>>
  /\ chargers = <<>>
  /\ parking_lots = <<>>
  /\ address = None
  /\ Fresh
  /\ calls = <<>>
  /\ NoAuth
  /\ NoManager

\* Lines 997-1043.  random_change_amount is random.randint(1,
\* MAX_VEHICLE_CHANGE); entry and exit stand for entry_roll >
\* DEFAULT_ENTRY_PROBABILITY and exit_roll > DEFAULT_EXIT_PROBABILITY.
update_vehicle_count ==
  \E random_change_amount \in 1..MAX_VEHICLE_CHANGE, entry \in BOOLEAN, exit \in BOOLEAN :
    LET old_count == current_cars
        new_count ==
          IF entry /\ current_cars < total_spaces
          THEN current_cars + Min(random_change_amount, total_spaces - current_cars)
          ELSE IF exit /\ current_cars > MIN_CARS
          THEN current_cars - Min(random_change_amount, current_cars)
          ELSE current_cars
        action == IF entry /\ current_cars < total_spaces THEN "entry"
                  ELSE IF exit /\ current_cars > MIN_CARS THEN "exit"
                  ELSE "none"
    IN  /\ pc \in {"ParkingLot", "update_vehicle_count", "set_vehicle_count",
                   "simulate_parking_changes"}
        /\ current_cars' = new_count
        /\ pc' = "update_vehicle_count"
        /\ args' = <<>>
        /\ result' = [old_count |-> old_count, new_count |-> new_count,
                      change |-> new_count - old_count, action |-> action]
        /\ UNCHANGED <<engine, total_spaces, calls, authVars, managerVars>>

\* Lines 1304-1317.
set_vehicle_count ==
  \E count \in CountArgs :
    /\ pc \in {"ParkingLot", "update_vehicle_count", "set_vehicle_count",
               "simulate_parking_changes"}
    /\ pc' = "set_vehicle_count"
    /\ args' = <<count>>
    /\ IF ~CountAccepted(count, total_spaces)
       THEN /\ result' = FALSE
            /\ UNCHANGED current_cars
       ELSE /\ current_cars' = count.value
            /\ result' = TRUE
    /\ UNCHANGED <<engine, total_spaces, calls, authVars, managerVars>>

\* Lines 1326-1339.  change is random.randint(-5, 5).
simulate_parking_changes ==
  \E change \in (0 - 5)..5 :
    LET new_count == Max(0, Min(current_cars + change, total_spaces))
    IN  /\ pc \in {"ParkingLot", "update_vehicle_count", "set_vehicle_count",
                   "simulate_parking_changes"}
        /\ pc' = "simulate_parking_changes"
        /\ args' = <<>>
        /\ result' = None
        /\ current_cars' = IF new_count # current_cars THEN new_count ELSE current_cars
        /\ UNCHANGED <<engine, total_spaces, calls, authVars, managerVars>>

NextLot ==
  \/ update_vehicle_count
  \/ set_vehicle_count
  \/ simulate_parking_changes

SpecLot == InitLot /\ [][NextLot]_vars

(***************************************************************************)
(* user_auth.py, class UserAuthSystem.  users maps a username to the       *)
(* user's data; a parking record is a tuple (dong_name, lot_name,          *)
(* entry_time, price_info) and a favorite a tuple (dong_name, lot_name,    *)
(* added_at); a key that is not in a dict reads as None.  pc names the     *)
(* method called last, args its arguments, result what it returned: for    *)
(* the methods that return (success, message), the pair of the success     *)
(* flag and a tag of the message.                                          *)
(***************************************************************************)
\* The number of times datetime.now() is read.
MaxClock == 2

\* Usernames: ab (too short), kim.
NameShort == <<"a", "b">>
NameKim == <<"k", "i", "m">>
Usernames == {NameShort, NameKim}

\* Passwords: pw (too short), pass, word2.
PassShort == <<"p", "w">>
PassOld == <<"p", "a", "s", "s">>
PassNew == <<"w", "o", "r", "d", "2">>
Passwords == {PassShort, PassOld, PassNew}

\* (dong_name, lot_name) of the lots users park at and mark as favorites.
Places == {<<"Jorye", "P1">>, <<"Jorye", "P2">>}

\* price_info of start_parking.
PriceInfo == "free"

\* Line 70: SHA-256, which no two passwords of the model share.
hash_password(password) == <<"sha256", password>>

\* datetime.now().isoformat() at the n-th reading of the clock.
Stamp(n) == <<"at", n>>

\* Lines 98-104: the data of a new user.
NewUser(password, stamp) ==
  [password |-> hash_password(password), email |-> <<>>, favorites |-> <<>>,
   created_at |-> stamp, last_login |-> None, parking_record |-> None]

\* d[key] = value
Put(d, key, value) == [k \in DOMAIN d \cup {key} |-> IF k = key THEN value ELSE d[k]]

\* del d[key]
Del(d, key) == [k \in DOMAIN d \ {key} |-> d[k]]

\* A file that json.dump has written to the end.  No method reads the file
\* after the construction, so the model records that it was written and not
\* what was written.
Dumped(content) == <<"<json>">>

\* A file that was opened for writing and not written to the end.
Partial == <<"<partial>">>

\* The users a data file holds when the object is constructed: one user who
\* registered earlier.
Stored == Put(<<>>, NameKim, NewUser(PassOld, Stamp(0)))

\* Lines 35-44, load_data: the users of the file, none when the file does not
\* exist.
Loaded(file) == IF file = None THEN <<>> ELSE Stored

\* Lines 49-66, save_data: it returns True and the file holds the dump, or an
\* exception makes it return False and leaves the file as it was (the
\* exception came before line 59) or torn (it came while writing).
SaveOutcomes == {"saved", "failed", "torn"}

Written(save, file, content) ==
  IF save = "saved" THEN Dumped(content) ELSE IF save = "torn" THEN Partial ELSE file

\* Lines 412-415: what get_current_parking returns.
current_parking(us, username) ==
  IF username \notin DOMAIN us THEN None ELSE us[username].parking_record

\* Lines 125-133: login; ok is its success flag and users the dict after it.
Login(us, username, password, stamp) ==
  IF username \notin DOMAIN us THEN [ok |-> FALSE, users |-> us]
  ELSE IF us[username].password # hash_password(password)
  THEN [ok |-> FALSE, users |-> us]
  ELSE [ok |-> TRUE, users |-> [us EXCEPT ![username].last_login = stamp]]

\* Positions of the favorite (dong_name, lot_name) in a favorites list.
FavoriteAt(list, place) ==
  {n \in 1..Len(list) : list[n][1] = place[1] /\ list[n][2] = place[2]}

\* list.pop(i)
Pop(list, i) == SubSeq(list, 1, i - 1) \o SubSeq(list, i + 1, Len(list))

\* The history of a user who has not parked.
NeverParked == [state |-> "never", record |-> None]

\* Lines 29-31: the object is constructed with a data file that does not
\* exist or that holds one registered user.
InitAuth ==
  /\ data_file \in {None, Dumped(Stored)}
  /\ users = Loaded(data_file)
  /\ now = 0
  /\ parked = [u \in Usernames |-> NeverParked]
  /\ pc = "UserAuthSystem"
  /\ args = <<>>
  /\ chargers = <<>>
  /\ parking_lots = <<>>
  /\ address = None
  /\ Fresh
  /\ calls = <<>>
  /\ NoLot
  /\ NoManager

\* A method returns: what it leaves behind.
Done(method, a, us, res, clock, file, history) ==
  /\ pc' = method
  /\ args' = a
  /\ users' = us
  /\ result' = res
  /\ now' = clock
  /\ data_file' = file
  /\ parked' = history
  /\ UNCHANGED <<engine, calls, lotVars, managerVars>>

\* Lines 87-112.
register ==
  \E username \in Usernames, password \in Passwords :
    LET a == <<username, password>> IN
    IF ~Truthy(username) \/ Len(username) < 3
    THEN Done("register", a, users, <<FALSE, "username">>, now, data_file, parked)
    ELSE IF ~Truthy(password) \/ Len(password) < 4
    THEN Done("register", a, users, <<FALSE, "password">>, now, data_file, parked)
    ELSE IF username \in DOMAIN users
    THEN Done("register", a, users, <<FALSE, "exists">>, now, data_file, parked)
    ELSE /\ now < MaxClock
         /\ \E save \in SaveOutcomes :
              LET created == Put(users, username, NewUser(password, Stamp(now + 1)))
              IN  IF save = "saved"
                  THEN Done("register", a, created, <<TRUE, "done">>, now + 1,
                            Written(save, data_file, created), parked)
                  ELSE Done("register", a, Del(created, username), <<FALSE, "save">>,
                            now + 1, Written(save, data_file, created), parked)

\* Lines 125-136; the result of save_data at line 133 is not looked at.
login ==
  \E username \in Usernames, password \in Passwords :
    LET a == <<username, password>>
        l == Login(users, username, password, Stamp(now + 1))
    IN  IF ~l.ok
        THEN Done("login", a, users, <<FALSE, "login">>, now, data_file, parked)
        ELSE /\ now < MaxClock
             /\ \E save \in SaveOutcomes :
                  Done("login", a, l.users, <<TRUE, "done">>, now + 1,
                       Written(save, data_file, l.users), parked)

\* Lines 151-166: login (with its save_data), the length check, the new
\* password and the second save_data.
change_password ==
  \E username \in Usernames, current_password \in Passwords, new_password \in Passwords :
    LET a == <<username, current_password, new_password>>
        l == Login(users, username, current_password, Stamp(now + 1))
        changed == [l.users EXCEPT ![username].password = hash_password(new_password)]
    IN  IF ~l.ok
        THEN Done("change_password", a, users, <<FALSE, "login">>, now, data_file, parked)
        ELSE /\ now < MaxClock
             /\ \E save1 \in SaveOutcomes :
                  LET file1 == Written(save1, data_file, l.users) IN
                  IF Len(new_password) < 4
                  THEN Done("change_password", a, l.users, <<FALSE, "password">>,
                            now + 1, file1, parked)
                  ELSE \E save \in SaveOutcomes :
                         Done("change_password", a, changed,
                              IF save = "saved" THEN <<TRUE, "done">> ELSE <<FALSE, "save">>,
                              now + 1, Written(save, file1, changed), parked)

\* Lines 180-193.  The history of a user ends with the account.
delete_account ==
  \E username \in Usernames, password \in Passwords :
    LET a == <<username, password>>
        l == Login(users, username, password, Stamp(now + 1))
        deleted == Del(l.users, username)
    IN  IF ~l.ok
        THEN Done("delete_account", a, users, <<FALSE, "login">>, now, data_file, parked)
        ELSE /\ now < MaxClock
             /\ \E save1 \in SaveOutcomes, save \in SaveOutcomes :
                  Done("delete_account", a, deleted,
                       IF save = "saved" THEN <<TRUE, "done">> ELSE <<FALSE, "save">>,
                       now + 1,
                       Written(save, Written(save1, data_file, l.users), deleted),
                       [parked EXCEPT ![username] = NeverParked])

\* Lines 209-235; the clock is read at line 216, before the duplicate check.
add_favorite ==
  \E username \in Usernames, place \in Places :
    LET a == <<username, place[1], place[2]>> IN
    IF username \notin DOMAIN users
    THEN Done("add_favorite", a, users, <<FALSE, "login">>, now, data_file, parked)
    ELSE /\ now < MaxClock
         /\ LET favorite == <<place[1], place[2], Stamp(now + 1)>>
                appended == [users EXCEPT ![username].favorites = Append(@, favorite)]
                restored == [appended EXCEPT ![username].favorites =
                                               SubSeq(@, 1, Len(@) - 1)]
            IN  IF FavoriteAt(users[username].favorites, place) # {}
                THEN Done("add_favorite", a, users, <<FALSE, "exists">>, now + 1,
                          data_file, parked)
                ELSE \E save \in SaveOutcomes :
                       IF save = "saved"
                       THEN Done("add_favorite", a, appended, <<TRUE, "done">>, now + 1,
                                 Written(save, data_file, appended), parked)
                       ELSE Done("add_favorite", a, restored, <<FALSE, "save">>, now + 1,
                                 Written(save, data_file, appended), parked)

\* Lines 249-267.
remove_favorite ==
  \E username \in Usernames, place \in Places :
    LET a == <<username, place[1], place[2]>> IN
    IF username \notin DOMAIN users
    THEN Done("remove_favorite", a, users, <<FALSE, "login">>, now, data_file, parked)
    ELSE IF FavoriteAt(users[username].favorites, place) = {}
    THEN Done("remove_favorite", a, users, <<FALSE, "missing">>, now, data_file, parked)
    ELSE LET i == SetMin(FavoriteAt(users[username].favorites, place))
             removed == users[username].favorites[i]
             popped == [users EXCEPT ![username].favorites = Pop(@, i)]
             restored == [popped EXCEPT ![username].favorites =
                                          SubSeq(@, 1, i - 1) \o <<removed>>
                                            \o SubSeq(@, i, Len(@))]
         IN  \E save \in SaveOutcomes :
               IF save = "saved"
               THEN Done("remove_favorite", a, popped, <<TRUE, "done">>, now,
                         Written(save, data_file, popped), parked)
               ELSE Done("remove_favorite", a, restored, <<FALSE, "save">>, now,
                         Written(save, data_file, popped), parked)

\* Lines 279-292.
clear_favorites ==
  \E username \in Usernames :
    LET a == <<username>> IN
    IF username \notin DOMAIN users
    THEN Done("clear_favorites", a, users, <<FALSE, "login">>, now, data_file, parked)
    ELSE LET backup == users[username].favorites
             cleared == [users EXCEPT ![username].favorites = <<>>]
             restored == [cleared EXCEPT ![username].favorites = backup]
         IN  \E save \in SaveOutcomes :
               IF save = "saved"
               THEN Done("clear_favorites", a, cleared, <<TRUE, "done">>, now,
                         Written(save, data_file, cleared), parked)
               ELSE Done("clear_favorites", a, restored, <<FALSE, "save">>, now,
                         Written(save, data_file, cleared), parked)

\* Lines 379-400.
start_parking ==
  \E username \in Usernames, place \in Places :
    LET a == <<username, place[1], place[2], PriceInfo>> IN
    IF username \notin DOMAIN users
    THEN Done("start_parking", a, users, <<FALSE, "user">>, now, data_file, parked)
    ELSE IF Truthy(users[username].parking_record)
    THEN Done("start_parking", a, users, <<FALSE, "parked">>, now, data_file, parked)
    ELSE /\ now < MaxClock
         /\ LET record == <<place[1], place[2], Stamp(now + 1), PriceInfo>>
                started == [users EXCEPT ![username].parking_record = record]
            IN  \E save \in SaveOutcomes :
                  IF save = "saved"
                  THEN Done("start_parking", a, started, <<TRUE, "done">>, now + 1,
                            Written(save, data_file, started),
                            [parked EXCEPT ![username] =
                                             [state |-> "active", record |-> record]])
                  ELSE Done("start_parking", a, started, <<FALSE, "save">>, now + 1,
                            Written(save, data_file, started), parked)

\* Lines 412-415.
get_current_parking ==
  \E username \in Usernames :
    /\ pc' = "get_current_parking"
    /\ args' = <<username>>
    /\ result' = current_parking(users, username)
    /\ UNCHANGED <<engine, calls, lotVars, authVars, managerVars>>

\* Lines 427-441.
end_parking ==
  \E username \in Usernames :
    LET a == <<username>> IN
    IF username \notin DOMAIN users
    THEN Done("end_parking", a, users, <<FALSE, "user">>, now, data_file, parked)
    ELSE IF ~Truthy(users[username].parking_record)
    THEN Done("end_parking", a, users, <<FALSE, "none">>, now, data_file, parked)
    ELSE LET ended == [users EXCEPT ![username].parking_record = None]
         IN  \E save \in SaveOutcomes :
               IF save = "saved"
               THEN Done("end_parking", a, ended, <<TRUE, "done">>, now,
                         Written(save, data_file, ended),
                         [parked EXCEPT ![username] = [state |-> "ended", record |-> None]])
               ELSE Done("end_parking", a, ended, <<FALSE, "save">>, now,
                         Written(save, data_file, ended), parked)

NextAuth ==
  \/ register
  \/ login
  \/ change_password
  \/ delete_account
  \/ add_favorite
  \/ remove_favorite
  \/ clear_favorites
  \/ start_parking
  \/ get_current_parking
  \/ end_parking

SpecAuth == InitAuth /\ [][NextAuth]_vars

(***************************************************************************)
(* parking_classes.py, class ParkingManager with its Dong objects.  dongs  *)
(* maps a dong name to the names of the lots in Dong.parking_lots, in list *)
(* order; favorites is the list of keys "dong:lot".                        *)
(***************************************************************************)
\* Largest number of lots added to one dong.
MaxDongLots == 2

DongNames == {DongJorye, DongSeokhyeon}

LotNames == {LotPublic, LotSumaegol}

\* Lines 311 and 345: f"{dong_name}:{lot_name}"
favorite_key(dong_name, lot_name) == dong_name \o <<":">> \o lot_name

\* Line 369: favorite_key.split(":", 1), the texts before and after the
\* first colon.
SplitKey(key) ==
  LET colon == SetMin({n \in 1..Len(key) : key[n] = ":"})
  IN  <<SubSeq(key, 1, colon - 1), SubSeq(key, colon + 1, Len(key))>>

\* Lines 370-373: get_dong finds the dong and get_lot_by_name finds a lot of
\* that name in it.
Exists(ds, dong_name, lot_name) ==
  /\ dong_name \in DOMAIN ds
  /\ \E n \in 1..Len(ds[dong_name]) : ds[dong_name][n] = lot_name

\* list.remove(x): the list without the first x.
Remove(list, x) ==
  LET i == SetMin({n \in 1..Len(list) : list[n] = x})
  IN  SubSeq(list, 1, i - 1) \o SubSeq(list, i + 1, Len(list))

\* Lines 375-386: the item of a favorite in the returned list (of the fields
\* of the lot, the model keeps the two names).
LotInfo(dong_name, lot_name) == <<dong_name, lot_name>>

RECURSIVE VisitFavorites(_, _, _, _)
\* Lines 367-399: `for favorite_key in self.favorites` from position i of the
\* list on.  The loop reads the list by position, and a favorite whose dong
\* or lot is gone is removed from the list while the loop runs.
VisitFavorites(ds, list, i, favorites_info) ==
  IF i > Len(list) THEN [favorites |-> list, favorites_info |-> favorites_info]
  ELSE LET names == SplitKey(list[i])
       IN  IF Exists(ds, names[1], names[2])
           THEN VisitFavorites(ds, list, i + 1,
                               Append(favorites_info, LotInfo(names[1], names[2])))
           ELSE VisitFavorites(ds, Remove(list, list[i]), i + 1, favorites_info)

\* Lines 60-63: a manager without dongs and favorites.
InitManager ==
  /\ dongs = <<>>
  /\ favorites = <<>>
  /\ pc = "ParkingManager"
  /\ args = <<>>
  /\ chargers = <<>>
  /\ parking_lots = <<>>
  /\ address = None
  /\ Fresh
  /\ calls = <<>>
  /\ NoLot
  /\ NoAuth

\* A method of the manager or of a dong returns: what it leaves behind.
Managed(method, a, ds, list, res) ==
  /\ pc' = method
  /\ args' = a
  /\ dongs' = ds
  /\ favorites' = list
  /\ result' = res
  /\ UNCHANGED <<engine, calls, lotVars, authVars>>

\* Lines 82-105.
add_dong ==
  \E dong_name \in DongNames :
    IF dong_name \in DOMAIN dongs
    THEN Managed("add_dong", <<dong_name>>, dongs, favorites, FALSE)
    ELSE Managed("add_dong", <<dong_name>>, Put(dongs, dong_name, <<>>), favorites, TRUE)

\* Lines 540-563, Dong.add_lot with a new ParkingLot object, which is in no
\* list yet, on a dong of the manager.
add_lot ==
  \E dong_name \in DOMAIN dongs, lot_name \in LotNames :
    /\ Len(dongs[dong_name]) < MaxDongLots
    /\ Managed("add_lot", <<dong_name, lot_name>>,
               [dongs EXCEPT ![dong_name] = Append(@, lot_name)], favorites, TRUE)

\* Lines 277-290.
remove_dong ==
  \E dong_name \in DongNames :
    IF dong_name \notin DOMAIN dongs
    THEN Managed("remove_dong", <<dong_name>>, dongs, favorites, FALSE)
    ELSE Managed("remove_dong", <<dong_name>>, Del(dongs, dong_name), favorites, TRUE)

\* Lines 749-765, Dong.remove_lot on a dong of the manager.
remove_lot ==
  \E dong_name \in DOMAIN dongs, lot_name \in LotNames :
    IF \E n \in 1..Len(dongs[dong_name]) : dongs[dong_name][n] = lot_name
    THEN Managed("remove_lot", <<dong_name, lot_name>>,
                 [dongs EXCEPT ![dong_name] = Remove(@, lot_name)], favorites, TRUE)
    ELSE Managed("remove_lot", <<dong_name, lot_name>>, dongs, favorites, FALSE)

\* Lines 304-329, ParkingManager.add_favorite.
manager_add_favorite ==
  \E dong_name \in DongNames, lot_name \in LotNames :
    LET a == <<dong_name, lot_name>>
        key == favorite_key(dong_name, lot_name)
    IN  IF ~Exists(dongs, dong_name, lot_name)
        THEN Managed("add_favorite", a, dongs, favorites, FALSE)
        ELSE IF \E n \in 1..Len(favorites) : favorites[n] = key
        THEN Managed("add_favorite", a, dongs, favorites, FALSE)
        ELSE Managed("add_favorite", a, dongs, Append(favorites, key), TRUE)

\* Lines 341-356, ParkingManager.remove_favorite.
manager_remove_favorite ==
  \E dong_name \in DongNames, lot_name \in LotNames :
    LET a == <<dong_name, lot_name>>
        key == favorite_key(dong_name, lot_name)
    IN  IF \E n \in 1..Len(favorites) : favorites[n] = key
        THEN Managed("remove_favorite", a, dongs, Remove(favorites, key), TRUE)
        ELSE Managed("remove_favorite", a, dongs, favorites, FALSE)

\* Lines 365-401.
get_favorites ==
  LET visited == VisitFavorites(dongs, favorites, 1, <<>>)
  IN  /\ pc' = "get_favorites"
      /\ args' = <<>>
      /\ favorites' = visited.favorites
      /\ result' = visited.favorites_info
      /\ UNCHANGED <<engine, calls, lotVars, authVars, dongs>>

NextManager ==
  \/ add_dong
  \/ add_lot
  \/ remove_dong
  \/ remove_lot
  \/ manager_add_favorite
  \/ manager_remove_favorite
  \/ get_favorites

SpecManager == InitManager /\ [][NextManager]_vars

(***************************************************************************)
(* Definitions the properties are stated with.                             *)
(***************************************************************************)
\* The pairs <<i, key>>: record i of chargers is listed under lot `key`.
Placed ==
  UNION { {<<origin[n].chargers[m], origin[n].key>> : m \in 1..Len(origin[n].chargers)} :
          n \in 1..Len(origin) }

\* How often record i of chargers is listed in the result.
Occurrences(i) ==
  Cardinality({<<n, m>> \in (1..Len(origin)) \X (1..Len(chargers)) :
                 m <= Len(origin[n].chargers) /\ origin[n].chargers[m] = i})

\* The result lists, under the keys of origin, the entries of the records
\* origin names (origin describes matched).
OriginDescribesMatched ==
  /\ Len(matched) = Len(origin)
  /\ \A n \in 1..Len(origin) :
       /\ matched[n].key = origin[n].key
       /\ matched[n].has_charger
       /\ Len(matched[n].chargers) = Len(origin[n].chargers)
       /\ \A m \in 1..Len(origin[n].chargers) :
            /\ origin[n].chargers[m] \in 1..Len(chargers)
            /\ matched[n].chargers[m] = Entry(chargers[origin[n].chargers[m]])

RECURSIVE RegistryLots(_)
\* The lots of the registry in its iteration order, each with its dong.
RegistryLots(groups) ==
  IF groups = <<>> THEN <<>>
  ELSE [k \in 1..Len(groups[1].lots) |->
          Lot(groups[1].dong_name, groups[1].lots[k].lot_name, groups[1].lots[k].address)]
       \o RegistryLots(Tail(groups))

RegistryNames ==
  LET all == RegistryLots(parking_lots) IN {all[k].lot_name : k \in 1..Len(all)}

\* Where the registry first lists a lot of this name.
FirstListed(name) ==
  LET all == RegistryLots(parking_lots)
  IN  SetMin({k \in 1..Len(all) : all[k].lot_name = name})

\* The indexed lot of a name.
LotOf(key) == parking_dict[KeyPos(parking_dict, key)]

\* The pair score of record i of chargers with an indexed lot.
ScoreOf(i, lot) == PairScore(Derived(chargers[i]), lot)

\* The invocation has returned its result.
Returned == pc \in {"returned", "done"}

\* The invocation is between two chargers or has just returned: the states in
\* which the result (and origin with it) has its latest value.  While a
\* charger is being scored the result is the one of the preceding such state.
Settled == pc \in {"chargers", "returned"}

\* The name of the best match of record i: of the indexed lots with the
\* highest score, the one the registry lists first; None below 60.
BestKey(i) ==
  LET c == Derived(chargers[i])
      sc == [n \in 1..Len(parking_dict) |-> PairScore(c, parking_dict[n])]
      at == [n \in 1..Len(parking_dict) |-> FirstListed(parking_dict[n].key)]
      top == {n \in 1..Len(parking_dict) :
                sc[n] >= 60 /\ \A k \in 1..Len(parking_dict) : sc[k] <= sc[n]}
  IN  IF top = {} THEN None
      ELSE parking_dict[CHOOSE n \in top : \A k \in top : at[n] <= at[k]].key

RECURSIVE Ascending(_)
\* The elements of a set of numbers in increasing order.
Ascending(S) ==
  IF S = {} THEN <<>> ELSE <<SetMin(S)>> \o Ascending(S \ {SetMin(S)})

(***************************************************************************)
(* Properties.                                                             *)
(***************************************************************************)
\* C1 (determinism): the second invocation on the same charger records and
\* the same registry returns the result the first one returned: the same keys
\* in the same order, each with the same ordered list of entries.
C1_Determinism ==
  (run = "second" /\ pc = "returned") => matched = EV_CHARGER_DATA

\* A second invocation that returned a result with two keys.
C1_Witness ==
  /\ run = "second" /\ pc = "returned"
  /\ Len(matched) = 2
  /\ matched = EV_CHARGER_DATA

\* C2 (registry closure): every key of the result is the name of a lot of the
\* supplied registry.
C2_RegistryClosure ==
  \A n \in 1..Len(matched) : matched[n].key \in RegistryNames

\* A returned result with a key.
C2_Witness ==
  /\ pc = "returned"
  /\ Len(matched) > 0
  /\ \A n \in 1..Len(matched) : matched[n].key \in RegistryNames

\* C3 (threshold): every charger listed in the result has a pair score of at
\* least 60 with the lot it is listed under, and a running best exists only
\* with a score of at least 60.
C3_Threshold ==
  /\ Settled =>
       \A p \in Placed :
         HasKey(parking_dict, p[2]) /\ ScoreOf(p[1], LotOf(p[2])) >= 60
  /\ (pc = "lots" /\ best_match # None) => best_score >= 60
  /\ (pc = "lots" /\ best_match = None) => best_score = 0

\* A charger listed with the least admissible score, 60.
C3_Witness ==
  /\ pc = "returned"
  /\ \E p \in Placed : ScoreOf(p[1], LotOf(p[2])) = 60

\* The pair is the culture/health-center special case: both names contain
\* the token, the dongs differ and one of the addresses contains 수영장.
IsSpecialPair(c, lot) ==
  /\ Contains(lot.key, <<"MunhwaGeongang">>)
  /\ Contains(c.charger_name, <<"MunhwaGeongang">>)
  /\ c.charger_dong # lot.dong_name
  /\ \/ Contains(c.charger_address, <<"Suyeongjang">>)
     \/ Contains(lot.address, <<"Suyeongjang">>)

\* C4 (dong gate): a charger listed under a lot has the lot's registry dong
\* as the dong derived from its address, or the pair is the special case; a
\* pair that is not the special case and whose dongs differ scores 0.
C4_DongGate ==
  /\ Settled =>
       \A p \in Placed :
         LET c == Derived(chargers[p[1]])
             lot == LotOf(p[2])
         IN  c.charger_dong = lot.dong_name \/ IsSpecialPair(c, lot)
  /\ (pc = "lots" /\ li > 0) =>
       LET lot == parking_dict[li]
       IN  (charger_dong # lot.dong_name /\ ~IsSpecialPair(Current, lot)) => score = 0

\* A charger whose address names a dong, listed by the special case under a
\* lot of another dong.
C4_Witness ==
  /\ pc = "returned"
  /\ \E p \in Placed :
       /\ Derived(chargers[p[1]]).charger_dong # LotOf(p[2]).dong_name
       /\ Derived(chargers[p[1]]).charger_dong # None

\* A lot whose score only equals the running best score does not replace the
\* running best.
C5_FirstOfEqualsStays ==
  [][(pc = "lots" /\ pc' = "lots" /\ best_match # None /\ score' = best_score)
       => best_match' = best_match]_vars

\* C5 (tie-break): of the indexed lots that share the score of the lot a
\* charger is listed under, none is listed earlier in the registry; and a lot
\* that only equals the running best score never replaces the running best.
C5_TieBreak ==
  /\ [](Settled =>
          \A p \in Placed :
            LET c == Derived(chargers[p[1]])
                own == PairScore(c, LotOf(p[2]))
            IN  \A n \in 1..Len(parking_dict) :
                  PairScore(c, parking_dict[n]) = own
                    => FirstListed(p[2]) <= FirstListed(parking_dict[n].key))
  /\ C5_FirstOfEqualsStays

\* A charger listed under the first of two lots of different names that have
\* the same score for it.
C5_Witness ==
  /\ pc = "returned"
  /\ \E p \in Placed :
       \E n \in 1..Len(parking_dict) :
         /\ parking_dict[n].key # p[2]
         /\ ScoreOf(p[1], parking_dict[n]) = ScoreOf(p[1], LotOf(p[2]))

\* C6 (best of all): no indexed lot has a higher pair score for a listed
\* charger than the lot it is listed under.
C6_BestOfAll ==
  Settled =>
    \A p \in Placed :
      LET c == Derived(chargers[p[1]])
          own == PairScore(c, LotOf(p[2]))
      IN  \A n \in 1..Len(parking_dict) : PairScore(c, parking_dict[n]) <= own

\* A listed charger for which a lot evaluated later scores 70 by the special
\* case, below the score of the lot it is listed under.
C6_Witness ==
  /\ pc = "returned"
  /\ \E p \in Placed :
       \E n \in 1..Len(parking_dict) :
         /\ n > KeyPos(parking_dict, p[2])
         /\ IsSpecialPair(Derived(chargers[p[1]]), parking_dict[n])
         /\ ScoreOf(p[1], parking_dict[n]) = 70
         /\ ScoreOf(p[1], LotOf(p[2])) > 70

\* C7 (listed iff qualifying): when the invocation has returned, a charger
\* record is listed exactly once if some indexed lot has a pair score of at
\* least 60 for it, and not at all otherwise; it is listed under its best match.
C7_ListedIffQualifying ==
  pc = "returned" =>
    /\ OriginDescribesMatched
    /\ \A i \in 1..Len(chargers) :
         LET c == Derived(chargers[i])
         IN  Occurrences(i) =
               IF \E n \in 1..Len(parking_dict) : PairScore(c, parking_dict[n]) >= 60
               THEN 1 ELSE 0
    /\ \A p \in Placed : p[2] = BestKey(p[1])

\* A returned result that lists one record and has dropped another one.
C7_Witness ==
  /\ pc = "returned"
  /\ \E i, j \in 1..Len(chargers) : Occurrences(i) = 1 /\ Occurrences(j) = 0

\* C8 (order of a lot's list): when the invocation has returned, the list of
\* every key consists of the entries of all records whose best match is that
\* lot, in the order of the records in the input.
C8_InputOrder ==
  pc = "returned" =>
    /\ OriginDescribesMatched
    /\ LET best == [i \in 1..Len(chargers) |-> BestKey(i)]
       IN  \A n \in 1..Len(origin) :
             origin[n].chargers =
               Ascending({i \in 1..Len(chargers) : best[i] = origin[n].key})

\* Two records with different entries listed under one lot.
C8_Witness ==
  /\ pc = "returned"
  /\ \E n \in 1..Len(matched) :
       /\ Len(matched[n].chargers) = 2
       /\ matched[n].chargers[1] # matched[n].chargers[2]

\* C9 as stated: a pair with equal normalized addresses scores 100.
C9_ExactScores100 ==
  (pc = "lots" /\ li > 0 /\ parking_dict[li].address = charger_address) => score = 100

\* C9 (amended): a pair with equal normalized addresses whose charger has the
\* lot's registry dong as its derived dong scores 100, or 160 when the
\* lot-number rule adds its 60 (a name signal holds and the lot's lot-number
\* occurs in the address); without a name signal the score is 100.
C9_ExactScoresAtLeast100 ==
  (/\ pc = "lots" /\ li > 0
   /\ parking_dict[li].address = charger_address
   /\ charger_dong = parking_dict[li].dong_name) =>
    LET lot == parking_dict[li]
        adds == /\ \/ Contains(chargers[ci].charger_name, lot.key)
                   \/ Contains(lot.key, chargers[ci].charger_name)
                   \/ keyword_match(lot.key, chargers[ci].charger_name)
                   \/ CultureCase(lot.key, chargers[ci].charger_name)
                /\ lot.address_number # None
                /\ Contains(charger_address, lot.address_number)
    IN  score = IF adds THEN 160 ELSE 100

\* A pair with equal addresses and no name signal, scored 100.
C9_Witness ==
  /\ pc = "lots" /\ li > 0
  /\ parking_dict[li].address = charger_address
  /\ charger_dong = parking_dict[li].dong_name
  /\ ~NameSignal(parking_dict[li].key, chargers[ci].charger_name)
  /\ score = 100

\* C10 as stated: a lot with the charger's normalized address wins over every
\* other candidate: when such a lot is indexed, the charger is not listed
\* under a lot whose address differs from the charger's.
C10_ExactAddressWins ==
  Returned =>
    \A i \in 1..Len(chargers) :
      (\E n \in 1..Len(parking_dict) :
         parking_dict[n].address = Derived(chargers[i]).charger_address)
      => \A p \in Placed :
           p[1] = i => LotOf(p[2]).address = Derived(chargers[i]).charger_address

\* The pair evaluated last has equal dongs, equal lot-numbers that are both
\* present, and a keyword of the lot name in the charger name.
C11_Case ==
  /\ pc = "lots" /\ li > 0
  /\ charger_dong = parking_dict[li].dong_name
  /\ charger_address_number # None
  /\ parking_dict[li].address_number = charger_address_number
  /\ keyword_match(parking_dict[li].key, chargers[ci].charger_name)

\* C11 as stated: such a pair scores 80.
C11_NumberEqualityScores80 == C11_Case => score = 80

\* C11 (amended): such a pair scores 80 for the lot-number equality, or 100
\* when the two addresses are equal, and 60 more when the lot's lot-number
\* occurs in the charger's address: 80, 140, 100 or 160.
C11_NumberEqualityScoresFrom80 ==
  C11_Case =>
    score = (IF parking_dict[li].address = charger_address THEN 100 ELSE 80)
            + (IF Contains(charger_address, parking_dict[li].address_number)
               THEN 60 ELSE 0)

\* The pair of the example: both addresses are the same dong and lot-number,
\* and the score is 160.
C11_Witness ==
  /\ C11_Case
  /\ parking_dict[li].address = charger_address
  /\ charger_address = parking_dict[li].address_number
  /\ score = 160

\* C12 as stated: a charger whose address yields no dong is listed nowhere.
C12_NoDongNeverListed ==
  pc = "returned" =>
    \A i \in 1..Len(chargers) :
      Derived(chargers[i]).charger_dong = None => Occurrences(i) = 0

\* C12 (amended): a charger whose address yields no dong is listed only by
\* the culture/health-center special case: once, under a lot that forms the
\* special case with it, when the index has such a lot, and nowhere otherwise.
C12_NoDongOnlySpecialCase ==
  pc = "returned" =>
    \A i \in 1..Len(chargers) :
      LET c == Derived(chargers[i])
      IN  c.charger_dong = None =>
            /\ Occurrences(i) =
                 IF \E n \in 1..Len(parking_dict) : IsSpecialPair(c, parking_dict[n])
                 THEN 1 ELSE 0
            /\ \A p \in Placed : p[1] = i => IsSpecialPair(c, LotOf(p[2]))

\* A charger without a dong in its address that is listed nowhere although
\* an indexed lot has exactly its address.
C12_Witness ==
  /\ pc = "returned"
  /\ \E i \in 1..Len(chargers) :
       /\ Derived(chargers[i]).charger_dong = None
       /\ \E n \in 1..Len(parking_dict) :
            parking_dict[n].address = Derived(chargers[i]).charger_address
       /\ Occurrences(i) = 0

\* Record i is a culture/health-center charger whose address contains
\* 석현동 35-10, and item n of the index is the lot 문화건강센터 수영장 of the
\* registry dong 석현동 with an address that contains 석현동 35-10.
C13_Case(i, n) ==
  /\ Contains(chargers[i].charger_name, <<"MunhwaGeongang">>)
  /\ Contains(Derived(chargers[i]).charger_address, AddrSeokhyeonBare)
  /\ parking_dict[n].key = LotCulture
  /\ parking_dict[n].dong_name = DongSeokhyeon
  /\ Contains(parking_dict[n].address, AddrSeokhyeonBare)

\* C13 as stated: such a pair scores at least 70 and the charger is listed
\* under that lot.
C13_CultureCenterAtLeast70 ==
  pc = "returned" =>
    \A i \in 1..Len(chargers) : \A n \in 1..Len(parking_dict) :
      C13_Case(i, n) =>
        /\ ScoreOf(i, parking_dict[n]) >= 70
        /\ <<i, LotCulture>> \in Placed

\* C13 (amended): when the dong derived from the charger's address is 석현동,
\* such a pair scores 60 for the lot-number inside the address, and 100 more
\* when the addresses are equal or else 80 more when the lot-numbers are
\* equal (160, 140 or 60); the charger is listed, under a lot that scores at
\* least as much, and under that lot when every other indexed lot scores less.
C13_CultureCenterAtLeast60 ==
  pc = "returned" =>
    \A i \in 1..Len(chargers) : \A n \in 1..Len(parking_dict) :
      (C13_Case(i, n) /\ Derived(chargers[i]).charger_dong = DongSeokhyeon) =>
        LET c == Derived(chargers[i])
            lot == parking_dict[n]
            own == (IF lot.address = c.charger_address THEN 100
                    ELSE IF lot.address_number = c.charger_address_number THEN 80
                    ELSE 0) + 60
        IN  /\ ScoreOf(i, lot) = own
            /\ Occurrences(i) = 1
            /\ \A p \in Placed :
                 p[1] = i =>
                   /\ ScoreOf(i, LotOf(p[2])) >= own
                   /\ (\A k \in 1..Len(parking_dict) :
                         k # n => ScoreOf(i, parking_dict[k]) < own)
                      => p[2] = LotCulture

\* The charger at the very address of the lot, listed under it with 160,
\* while another lot at that address is indexed before it.
C13_Witness ==
  /\ pc = "returned"
  /\ \E i \in 1..Len(chargers) : \E n \in 1..Len(parking_dict) :
       /\ C13_Case(i, n)
       /\ Derived(chargers[i]).charger_address = parking_dict[n].address
       /\ n > 1
       /\ parking_dict[1].address = parking_dict[n].address
       /\ ScoreOf(i, parking_dict[n]) = 160
       /\ <<i, LotCulture>> \in Placed

\* The pair evaluated last is a culture/health-center charger with the lot
\* 문화건강센터 수영장 at 전남 석현동 35-10, and the dong derived from the
\* charger's address is not the lot's registry dong.
C14_Case ==
  /\ pc = "lots" /\ li > 0
  /\ Contains(chargers[ci].charger_name, <<"MunhwaGeongang">>)
  /\ parking_dict[li].key = LotCulture
  /\ parking_dict[li].address = AddrSeokhyeon
  /\ charger_dong # parking_dict[li].dong_name

\* C14 as stated: such a pair is awarded 70 by the pool-keyword fallback.
C14_FallbackScores70 == C14_Case => score = 70

\* C14 (amended): such a pair is awarded 70 when the charger's address
\* contains 수영장 (the lot's address does not) and is rejected with score 0
\* otherwise.
C14_FallbackNeedsPoolInAddress ==
  C14_Case =>
    score = IF Contains(charger_address, <<"Suyeongjang">>) THEN 70 ELSE 0

\* A charger of another dong with 수영장 in its address, awarded 70.
C14_Witness ==
  /\ C14_Case
  /\ charger_dong = DongJorye
  /\ Contains(charger_address, <<"Suyeongjang">>)
  /\ score = 70

\* C15 as stated: no invocation ends by raising to its caller, whatever the
\* fields of the charger record are.
C15_NeverRaises == pc # "raised"

\* The charge type by the rule of C16: the fast and the slow keyword are
\* looked for in the capacity and in the availability-time descriptor.
ReferenceChargeType(r) ==
  IF \/ Contains(r.charger_type, <<"DC">>)
     \/ Contains(r.capacity, <<"Keupsok">>)
     \/ Contains(r.available_time, <<"Keupsok">>)
  THEN <<"Keupsok">>
  ELSE IF \/ Contains(r.charger_type, <<"AC">>)
          \/ Contains(r.capacity, <<"Wansok">>)
          \/ Contains(r.available_time, <<"Wansok">>)
  THEN <<"Wansok">>
  ELSE <<"Keupsok">>

\* C16 as stated: the charge type of every listed charger is the one of the
\* reference rule.
C16_ReferenceRule ==
  pc = "returned" =>
    \A n \in 1..Len(matched) : \A m \in 1..Len(matched[n].chargers) :
      matched[n].chargers[m].charge_type
        = ReferenceChargeType(chargers[origin[n].chargers[m]])

\* C17 (availability flag): the flag of every listed charger is false exactly
\* when the availability-time descriptor of its record is a text that
\* contains 이용불가; with an empty or absent descriptor it is true.
C17_AvailabilityFlag ==
  pc = "returned" =>
    \A n \in 1..Len(matched) : \A m \in 1..Len(matched[n].chargers) :
      LET time == chargers[origin[n].chargers[m]].available_time
      IN  matched[n].chargers[m].is_available
            <=> ~(IsText(time) /\ Contains(time, <<"IyongBulga">>))

\* A listed charger whose descriptor contains the marker after other text,
\* flagged as not available.
C17_Witness ==
  /\ pc = "returned"
  /\ \E n \in 1..Len(matched) : \E m \in 1..Len(matched[n].chargers) :
       /\ ~matched[n].chargers[m].is_available
       /\ matched[n].chargers[m].available_time = <<"2", "4", " ", "IyongBulga">>

\* C18 as stated: normalize_address rewrites the leading 전라남도 to 전남 and
\* leaves the rest of the address, later occurrences of 전라남도 included, as
\* it is; an address with another beginning is returned unchanged, and the
\* empty or absent address gives the empty text.
C18_OnlyLeadingRewritten ==
  pc = "normalize_address" =>
    result = IF address = None \/ address = <<>> THEN <<>>
             ELSE IF address[1] = "Jeollanamdo" THEN <<"Jeonnam">> \o Tail(address)
             ELSE address

\* a[s..k] is a dong token (word characters, at least one before the final
\* 동), a[k+1..t-1] is white space, possibly none, and a[t..g] is a digit
\* followed by the longest run of digits and hyphens.
IsNumberMatch(a, s, k, t, g) ==
  /\ 1 <= s /\ s < k /\ k < t /\ t <= g /\ g <= Len(a)
  /\ \A i \in s..k : IsWord(a[i])
  /\ a[k] = "dong"
  /\ \A i \in (k + 1)..(t - 1) : IsSpace(a[i])
  /\ IsDigit(a[t])
  /\ \A i \in t..g : IsDigit(a[i]) \/ a[i] = "-"
  /\ g < Len(a) => ~(IsDigit(a[g + 1]) \/ a[g + 1] = "-")

\* A lot designator as C19 describes it: digits, with at most one hyphen, and
\* that one between digits.
IsPlainLot(lot) ==
  /\ lot # <<>>
  /\ \A i \in 1..Len(lot) : IsDigit(lot[i]) \/ lot[i] = "-"
  /\ IsDigit(lot[1]) /\ IsDigit(lot[Len(lot)])
  /\ Cardinality({i \in 1..Len(lot) : lot[i] = "-"}) <= 1

\* C19 as stated: extract_address_number returns a value only when the
\* address has a dong token followed by white space and a lot designator of
\* digits with at most one internal hyphen, and then returns the token, one
\* space and that designator.
C19_WhitespaceAndPlainLot ==
  (pc = "extract_address_number" /\ result # None) =>
    \E s, k, t, g \in 1..Len(address) :
      /\ IsNumberMatch(address, s, k, t, g)
      /\ t > k + 1
      /\ IsPlainLot(SubSeq(address, t, g))
      /\ result = SubSeq(address, s, k) \o <<" ">> \o SubSeq(address, t, g)

\* C19 (amended): extract_address_number returns a value exactly when the
\* address has a dong token followed by white space, possibly none, and a
\* digit; the value is the token of the leftmost such place (the longest one
\* from there), one space, and the digit with the longest run of digits and
\* hyphens that follows it.
C19_OptionalWhitespaceAnyHyphens ==
  pc = "extract_address_number" =>
    LET a == address
        places == IF a = None THEN {}
                  ELSE {m \in (1..Len(a)) \X (1..Len(a)) \X (1..Len(a)) \X (1..Len(a)) :
                          IsNumberMatch(a, m[1], m[2], m[3], m[4])}
    IN  IF places = {} THEN result = None
        ELSE \E m \in places :
               /\ result = SubSeq(a, m[1], m[2]) \o <<" ">> \o SubSeq(a, m[3], m[4])
               /\ \A o \in places :
                    m[1] <= o[1] /\ (o[1] = m[1] => o[2] <= m[2])

\* Digits directly after the dong token, and a hyphen at the end of the lot
\* designator: 조례동1- gives 조례동 1-.
C19_Witness ==
  /\ pc = "extract_address_number"
  /\ address = <<"Jorye", "dong", "1", "-">>
  /\ result = <<"Jorye", "dong", " ", "1", "-">>

\* a[s..k] is a run of word characters, at least one of them before the
\* final 동.
IsDongMatch(a, s, k) ==
  /\ 1 <= s /\ s < k /\ k <= Len(a)
  /\ \A i \in s..k : IsWord(a[i])
  /\ a[k] = "dong"

\* C20 (dong token): extract_dong_from_address returns the first run of word
\* characters that is followed by 동, the 동 included: of all such runs of the
\* address the one that starts leftmost, taken up to the last 동 its word
\* reaches; it returns absent when there is no such run or no address.
C20_FirstDongToken ==
  pc = "extract_dong_from_address" =>
    LET a == address
        places == IF a = None THEN {}
                  ELSE {m \in (1..Len(a)) \X (1..Len(a)) : IsDongMatch(a, m[1], m[2])}
    IN  IF places = {} THEN result = None
        ELSE \E m \in places :
               /\ result = SubSeq(a, m[1], m[2])
               /\ \A o \in places : m[1] <= o[1] /\ (o[1] = m[1] => o[2] <= m[2])

\* An address with two dong tokens in different words: the first is returned.
C20_Witness ==
  /\ pc = "extract_dong_from_address"
  /\ address = <<"Jorye", "dong", " ", "1", "dong">>
  /\ result = <<"Jorye", "dong">>

\* C21 (lot index): once built, the index has one entry for each distinct
\* lot name of the registry and no other; the entry of a name holds the
\* declared dong of the last registry lot of that name, the normalized
\* address of that lot and the lot-number extracted from it.
C21_LotIndex ==
  pc # "call" =>
    LET all == RegistryLots(parking_lots)
    IN  /\ \A n, m \in 1..Len(parking_dict) :
             n # m => parking_dict[n].key # parking_dict[m].key
        /\ {parking_dict[n].key : n \in 1..Len(parking_dict)} = RegistryNames
        /\ \A n \in 1..Len(parking_dict) :
             LET last == SetMax({k \in 1..Len(all) : all[k].lot_name = parking_dict[n].key})
                 a == normalize_address(all[last].address)
             IN  /\ parking_dict[n].dong_name = all[last].dong_name
                 /\ parking_dict[n].address = a
                 /\ parking_dict[n].address_number = extract_address_number(a)

\* Two registry lots of one name in different dongs: the index has one entry,
\* with the dong and address of the later lot, whose address names no dong.
C21_Witness ==
  /\ pc = "chargers"
  /\ Len(RegistryLots(parking_lots)) = 2
  /\ Len(parking_dict) = 1
  /\ RegistryLots(parking_lots)[1].dong_name # RegistryLots(parking_lots)[2].dong_name
  /\ parking_dict[1].dong_name = RegistryLots(parking_lots)[2].dong_name
  /\ parking_dict[1].address = RegistryLots(parking_lots)[2].address
  /\ extract_dong_from_address(parking_dict[1].address) = None

RECURSIVE BestOver(_, _, _, _)
\* Lines 118-168 run without interruption: the running best of charger c once
\* the lots from position n of the index on have been scored.
BestOver(c, index, n, best) ==
  IF n > Len(index) THEN best
  ELSE LET s == PairScore(c, index[n])
       IN  BestOver(c, index, n + 1,
                    IF Improves(s, best.score)
                    THEN [match |-> index[n].key, score |-> s]
                    ELSE best)

RECURSIVE MatchFrom(_, _, _, _)
\* Lines 109-206 run without interruption from record i of the feed on.
MatchFrom(cs, index, i, m) ==
  IF i > Len(cs) THEN m
  ELSE LET best == BestOver(Derived(cs[i]), index, 1, InitialBest)
       IN  MatchFrom(cs, index, i + 1,
                     IF Truthy(best.match)
                     THEN AddTo(m, best.match, Entry(cs[i]))
                     ELSE m)

\* What match_charger_to_parking_lot(cs, lots) returns when it runs alone.
RunAlone(cs, lots) == MatchFrom(cs, IndexGroups(<<>>, lots, 1), 1, <<>>)

\* C22 (isolation of invocations): no step of any invocation changes the
\* charger records or the registry an invocation was called with, and an
\* invocation that runs interleaved with another one returns what it returns
\* when it runs alone on its own feed and registry.
C22_Isolated ==
  /\ [][\A p \in Invocations :
          /\ calls'[p].chargers = calls[p].chargers
          /\ calls'[p].parking_lots = calls[p].parking_lots]_vars
  /\ [](\A p \in Invocations :
          calls[p].pc = "returned" =>
            calls[p].matched = RunAlone(calls[p].chargers, calls[p].parking_lots))

\* One invocation has returned a result with an entry while the other one,
\* called with another feed, is in its lot loop and has collected an entry of
\* its own.
C22_Witness ==
  /\ calls["one"].pc = "returned"
  /\ calls["one"].matched # <<>>
  /\ calls["other"].pc = "lots"
  /\ calls["other"].matched # <<>>
  /\ calls["other"].chargers # calls["one"].chargers
  /\ calls["other"].matched # calls["one"].matched

\* The lot scored next and the charger's name: both contain 문화건강 and the
\* dong derived from the charger's address is not the lot's registry dong.
CultureDongsDiffer(lot) ==
  /\ Contains(lot.key, <<"MunhwaGeongang">>)
  /\ Contains(chargers[ci].charger_name, <<"MunhwaGeongang">>)
  /\ charger_dong # lot.dong_name

\* C24 (special case, differing dongs): when both names contain 문화건강 and
\* the derived dong is not the registry dong, the pair scores exactly 70 if
\* one of the two normalized addresses contains 수영장, and then replaces the
\* running best exactly when 70 is greater than it; if neither address
\* contains 수영장 the pair scores 0 and the running best stays.
C24_DifferingDongs ==
  [][(pc = "lots" /\ pc' = "lots" /\ li' = li + 1
        /\ CultureDongsDiffer(parking_dict[li + 1])) =>
       LET lot == parking_dict[li + 1]
       IN  IF \/ Contains(charger_address, <<"Suyeongjang">>)
              \/ Contains(lot.address, <<"Suyeongjang">>)
           THEN /\ score' = 70
                /\ IF 70 > best_score
                   THEN best_score' = 70 /\ best_match' = lot.key
                   ELSE best_score' = best_score /\ best_match' = best_match
           ELSE /\ score' = 0
                /\ best_score' = best_score
                /\ best_match' = best_match]_vars

\* The second lot of the index is such a pair with 수영장 in the charger's
\* address: it scored 70 and the first lot, which scored 100, stays the best.
C24_Witness ==
  /\ pc = "lots" /\ li = 2
  /\ CultureDongsDiffer(parking_dict[2])
  /\ Contains(charger_address, <<"Suyeongjang">>)
  /\ score = 70
  /\ best_score = 100
  /\ best_match = parking_dict[1].key

\* The pair evaluated last: both names contain 문화건강 and the dong derived
\* from the charger's address is the lot's registry dong.
C25_Case ==
  /\ pc = "lots" /\ li > 0
  /\ Contains(parking_dict[li].key, <<"MunhwaGeongang">>)
  /\ Contains(chargers[ci].charger_name, <<"MunhwaGeongang">>)
  /\ charger_dong = parking_dict[li].dong_name

\* C25 (special case, equal dongs): such a pair is scored by the ordinary
\* rules with the name signal taken as given, whatever the containment and
\* keyword tests say: 100 for equal addresses, else 80 for equal lot-numbers
\* that are both present, and 60 more when the lot's lot-number occurs in the
\* charger's address; it never scores 70.
C25_EqualDongs ==
  C25_Case =>
    LET lot == parking_dict[li]
        first == IF lot.address = charger_address THEN 100
                 ELSE IF charger_address_number # None /\ lot.address_number # None
                         /\ charger_address_number = lot.address_number
                      THEN 80
                 ELSE 0
        second == IF lot.address_number # None
                     /\ Contains(charger_address, lot.address_number)
                  THEN 60
                  ELSE 0
    IN  score = first + second /\ score # 70

\* Such a pair in which neither name contains the other and no keyword of the
\* lot name is in the charger name (문화건강 충전소 against 문화건강센터
\* 수영장) scored 140: lot-number equality and the lot-number in the address.
C25_Witness ==
  /\ C25_Case
  /\ ~lot_name_in_charger(parking_dict[li].key, chargers[ci].charger_name)
  /\ ~keyword_match(parking_dict[li].key, chargers[ci].charger_name)
  /\ parking_dict[li].address # charger_address
  /\ score = 140

\* C26 (score values): the score of a pair is 0, 60, 70, 80, 100, 140 or 160;
\* it is 70 only for a special-case pair; and for any other pair with equal
\* dongs whose lot-number occurs in the charger's address with a name signal,
\* the 60 of that rule is in the score on its own or on top of the 100 or the
\* 80 (60, 160 or 140).
C26_ScoreValues ==
  (pc = "lots" /\ li > 0) =>
    LET lot == parking_dict[li]
        c == Current
    IN  /\ score \in {0, 60, 70, 80, 100, 140, 160}
        /\ score = 70 => IsSpecialPair(c, lot)
        /\ (/\ ~IsSpecialPair(c, lot)
            /\ charger_dong = lot.dong_name
            /\ lot.address_number # None
            /\ Contains(charger_address, lot.address_number)
            /\ NameSignal(lot.key, c.charger_name)) =>
             score = 60 + (IF lot.address = charger_address THEN 100
                           ELSE IF charger_address_number = lot.address_number THEN 80
                           ELSE 0)
        /\ score \in {140, 160} =>
             /\ lot.address_number # None
             /\ Contains(charger_address, lot.address_number)

\* Equal addresses, the lot-number in the charger's address and a name
\* signal: 100 + 60.
C26_Witness ==
  /\ pc = "lots" /\ li > 0
  /\ parking_dict[li].address = charger_address
  /\ NameSignal(parking_dict[li].key, chargers[ci].charger_name)
  /\ score = 160

\* The pair evaluated last: the addresses are not equal, neither name contains
\* the other, and the keyword test does not hold (no keyword of the lot name
\* is in the charger name, and the names do not both contain 문화건강, which
\* line 136 takes for a keyword match).
C27_Case ==
  /\ pc = "lots" /\ li > 0
  /\ parking_dict[li].address # charger_address
  /\ ~lot_name_in_charger(parking_dict[li].key, chargers[ci].charger_name)
  /\ ~keyword_match(parking_dict[li].key, chargers[ci].charger_name)
  /\ ~CultureCase(parking_dict[li].key, chargers[ci].charger_name)

\* C27 (lot-number alone): a pair with unequal addresses and without a name
\* signal scores 0, also when the two lot-numbers are equal or the lot's
\* lot-number occurs in the charger's address.
C27_NumberAloneScoresNothing == C27_Case => score = 0

\* A lot named 공영주차장, filler words only, and the charger 수매골 충전소 in
\* the same dong with the same lot-number, which also occurs in the charger's
\* address: the pair scored 0.
C27_Witness ==
  /\ C27_Case
  /\ parking_dict[li].key = LotPublic
  /\ lot_name_keywords(LotPublic) = <<>>
  /\ charger_dong = parking_dict[li].dong_name
  /\ charger_address_number # None
  /\ charger_address_number = parking_dict[li].address_number
  /\ Contains(charger_address, parking_dict[li].address_number)
  /\ score = 0

\* C23 (vehicle count within the lot): a constructed lot has 0 <=
\* current_cars <= total_spaces, initially and after every call of
\* update_vehicle_count, set_vehicle_count and simulate_parking_changes; and a
\* set_vehicle_count call with a count below 0 or above total_spaces returns
\* False and leaves current_cars as it was.
C23_CountWithinSpaces ==
  /\ [](total_spaces > 0 => (0 <= current_cars /\ current_cars <= total_spaces))
  /\ [][(pc' = "set_vehicle_count"
           /\ (args'[1].value < 0 \/ args'[1].value > total_spaces)) =>
          (result' = FALSE /\ current_cars' = current_cars)]_vars

\* set_vehicle_count was called on a lot that is not full with a count one
\* above total_spaces: it returned False and the lot is still not full.
C23_Witness ==
  /\ pc = "set_vehicle_count"
  /\ args[1].type = "int"
  /\ args[1].value = total_spaces + 1
  /\ result = FALSE
  /\ current_cars < total_spaces
  /\ current_cars > 0

\* The methods of UserAuthSystem that return (success, message) and change
\* the users data.
ChangingMethods ==
  {"register", "add_favorite", "remove_favorite", "clear_favorites", "change_password",
   "delete_account", "start_parking", "end_parking"}

\* C28 (one active parking record): start_parking succeeds only for an
\* existing user without a record, and while a record is active it fails and
\* leaves the record; end_parking succeeds only when a record is active and
\* removes it; from a successful start_parking to the next successful
\* end_parking get_current_parking returns the record that start_parking
\* stored, and after that end_parking it returns None.
C28_OneActiveRecord ==
  /\ [][pc' = "start_parking" =>
          LET username == args'[1]
              before == current_parking(users, username)
          IN  /\ result'[1] => (username \in DOMAIN users /\ before = None)
              /\ before # None =>
                   (~result'[1] /\ current_parking(users', username) = before)]_vars
  /\ [][(pc' = "end_parking" /\ result'[1]) =>
          /\ current_parking(users, args'[1]) # None
          /\ current_parking(users', args'[1]) = None]_vars
  /\ [](pc # "interleaved" =>
          \A username \in DOMAIN parked :
            /\ parked[username].state = "active" =>
                 current_parking(users, username) = parked[username].record
            /\ parked[username].state = "ended" =>
                 current_parking(users, username) = None)

\* C29 (failure leaves the users data): when one of the eight changing
\* methods returns failure, users is what it was before the call.
C29_FailureLeavesUsers ==
  [][(pc' \in ChangingMethods /\ ~result'[1]) => users' = users]_vars

\* The key names a dong of the manager and a lot in it.
IsLive(key) == Exists(dongs, SplitKey(key)[1], SplitKey(key)[2])

\* C30 (stale favorites): when get_favorites returns, no favorite is left
\* whose dong or lot is gone, and the returned list has one item for each
\* favorite whose dong and lot exist, in the order of the favorites.
C30_StaleFavoritesRemoved ==
  [][pc' = "get_favorites" =>
       LET live == SelectSeq(favorites, IsLive)
       IN  /\ favorites' = live
           /\ result' = [n \in 1..Len(live) |->
                           LotInfo(SplitKey(live[n])[1], SplitKey(live[n])[2])]]_vars

====
